---------------------------- MODULE Spec2Model ----------------------------
(***************************************************************************)
(* Model of the chat orchestration engine of database-mcp:                 *)
(*   - the SQL safety validator        (src/src/utils/validator.ts)        *)
(*   - the tool registry               (src/src/mcp/tools.ts)              *)
(*   - the orchestration loop          (src/unnamed/part_002, chat.ts)     *)
(*   - the host endpoints that reach them (src/src/server.ts)              *)
(*                                                                         *)
(* A text is a sequence of tokens (strings); " " is a run of whitespace.   *)
(* Concatenation of texts is \o, so formatting and rewriting are computed  *)
(* token by token as the code computes them character by character.        *)
(***************************************************************************)
EXTENDS Integers, Sequences, FiniteSets, TLC

(***************************************************************************)
(* Text helpers                                                            *)
(***************************************************************************)

\* /\s/ : a whitespace token
IsWs(t) == t = " "

\* the /i flag of the validator's regular expressions, and the parser's
\* case-insensitive keywords
Upper(t) ==
  CASE t = "select" -> "SELECT"
    [] t = "drop"   -> "DROP"
    [] t = "limit"  -> "LIMIT"
    [] t = "delete" -> "DELETE"
    [] t = "from"   -> "FROM"
    [] t = "table"  -> "TABLE"
    [] t = "truncate" -> "TRUNCATE"
    [] OTHER        -> t

\* /\d+/ : tokens that start with decimal digits
IsNumber(t) == t \in {"0", "1", "5", "1000"}

\* /\w+/ : word tokens (keywords, identifiers, numbers)
IsWord(t) == t \notin {" ", ";", "*", "=", ",", "(", ")", "."}

RECURSIVE TrimLeft(_)
TrimLeft(s) ==
  IF s # << >> /\ IsWs(Head(s)) THEN TrimLeft(Tail(s)) ELSE s

RECURSIVE TrimRight(_)
TrimRight(s) ==
  IF s # << >> /\ IsWs(s[Len(s)]) THEN TrimRight(SubSeq(s, 1, Len(s) - 1)) ELSE s

\* String.prototype.trim
Trim(s) == TrimRight(TrimLeft(s))

\* index of the first non-whitespace token at or after i (Len(s)+1 if none)
RECURSIVE SkipWs(_, _)
SkipWs(s, i) ==
  IF i <= Len(s) /\ IsWs(s[i]) THEN SkipWs(s, i + 1) ELSE i

(***************************************************************************)
(* The SQL parser capability (node-sql-parser's Parser.astify), restricted *)
(* to the statement shapes the model's texts use.  A text is a list of     *)
(* statements separated by ";", a trailing ";" allowed.                    *)
(***************************************************************************)

NoTable == "<none>"

StripWs(s) == SelectSeq(s, LAMBDA t : ~IsWs(t))

\* the statements of a whitespace-free token list, split at ";"
RECURSIVE SplitStatements(_, _, _)
SplitStatements(toks, cur, acc) ==
  IF toks = << >> THEN Append(acc, cur)
  ELSE IF Head(toks) = ";" THEN SplitStatements(Tail(toks), << >>, Append(acc, cur))
  ELSE SplitStatements(Tail(toks), Append(cur, Head(toks)), acc)

IsIdent(t) == IsWord(t) /\ ~IsNumber(t)

\* an AST node: its type, the tables of its from list, its table reference;
\* readable = FALSE stands for a node the classifier cannot read (a from
\* entry that is null, so that item.table raises a TypeError)
Node(type, from, table) ==
  [ok |-> TRUE, type |-> type, from |-> from, table |-> table, readable |-> TRUE]

\* one statement: its AST node, or ok = FALSE
ParseStatement(st) ==
  LET u == [i \in 1..Len(st) |-> Upper(st[i])]
      bad == [ok |-> FALSE, type |-> "", from |-> << >>, table |-> NoTable,
              readable |-> TRUE]
  IN
  IF Len(u) = 4 /\ u[1] = "SELECT" /\ u[2] = "*" /\ u[3] = "FROM" /\ IsIdent(st[4])
    THEN Node("select", <<st[4]>>, NoTable)
  ELSE IF Len(u) = 6 /\ u[1] = "SELECT" /\ u[2] = "*" /\ u[3] = "FROM" /\ IsIdent(st[4])
          /\ u[5] = "LIMIT" /\ IsNumber(st[6])
    THEN Node("select", <<st[4]>>, NoTable)
  ELSE IF Len(u) = 2 /\ u[1] = "SELECT" /\ IsNumber(st[2])
    THEN Node("select", << >>, NoTable)
  ELSE IF Len(u) = 3 /\ u[1] = "DELETE" /\ u[2] = "FROM" /\ IsIdent(st[3])
    THEN Node("delete", <<st[3]>>, NoTable)
  ELSE IF Len(u) = 3 /\ u[1] = "DROP" /\ u[2] = "TABLE" /\ IsIdent(st[3])
    THEN Node("drop", << >>, NoTable)
  ELSE IF Len(u) = 3 /\ u[1] = "TRUNCATE" /\ u[2] = "TABLE" /\ IsIdent(st[3])
    THEN Node("truncate", << >>, NoTable)
  ELSE IF Len(u) = 6 /\ u[1] = "UPDATE" /\ IsIdent(st[2]) /\ u[3] = "SET"
          /\ IsIdent(st[4]) /\ u[5] = "=" /\ IsNumber(st[6])
    THEN Node("update", << >>, st[2])
  ELSE IF Len(u) = 7 /\ u[1] = "INSERT" /\ u[2] = "INTO" /\ IsIdent(st[3])
          /\ u[4] = "VALUES" /\ u[5] = "(" /\ IsNumber(st[6]) /\ u[7] = ")"
    THEN Node("insert", << >>, st[3])
  ELSE IF Len(u) = 7 /\ u[1] = "CREATE" /\ u[2] = "TABLE" /\ IsIdent(st[3])
          /\ u[4] = "(" /\ IsIdent(st[5]) /\ u[6] = "INT" /\ u[7] = ")"
    THEN Node("create", << >>, st[3])
  ELSE IF Len(u) = 7 /\ u[1] = "ALTER" /\ u[2] = "TABLE" /\ IsIdent(st[3])
          /\ u[4] = "ADD" /\ u[5] = "COLUMN" /\ IsIdent(st[6]) /\ u[7] = "INT"
    THEN Node("alter", << >>, st[3])
  ELSE IF Len(u) = 2 /\ u[1] = "SHOW" /\ u[2] = "TABLES"
    THEN Node("show", << >>, NoTable)
  ELSE bad

\* Parser.astify: ok = FALSE when astify throws, else the statement list
astify(sql) ==
  LET parts == SplitStatements(StripWs(sql), << >>, << >>)
      \* a trailing ";" leaves one empty last part
      stmts == IF Len(parts) > 1 /\ parts[Len(parts)] = << >>
                 THEN SubSeq(parts, 1, Len(parts) - 1) ELSE parts
      nodes == [i \in 1..Len(stmts) |-> ParseStatement(stmts[i])]
  IN IF \A i \in 1..Len(nodes) : nodes[i].ok
       THEN [ok |-> TRUE, stmts |-> nodes]
       ELSE [ok |-> FALSE, stmts |-> << >>]

(***************************************************************************)
(* SQLValidator                                                            *)
(***************************************************************************)

\* a write set that lacks truncate: C15 must reject it
writeOperationsShort == {"insert", "update", "delete", "create", "drop", "alter"}

writeOperations == {"insert", "update", "delete", "create", "drop", "alter", "truncate"}

\* an analyzeStatement that leaves the from list out: C24 must reject it
analyzeStatementNoFrom(stmt, result) ==
  IF stmt.type = "" THEN [result |-> result, raised |-> FALSE]
  ELSE
    LET type == stmt.type
        ro == IF type \in writeOperations THEN FALSE ELSE result.isReadOnly
        t2 == IF stmt.table # NoTable THEN Append(result.tables, stmt.table)
                                      ELSE result.tables
    IN IF stmt.readable
         THEN [result |-> [result EXCEPT !.type = type, !.isReadOnly = ro, !.tables = t2],
               raised |-> FALSE]
         ELSE [result |-> [result EXCEPT !.type = type, !.isReadOnly = ro],
               raised |-> TRUE]

\* analyzeStatement: folds one statement into the running result; raised is
\* TRUE when reading the node raises, the result being what was assigned
\* before that
analyzeStatement(stmt, result) ==
  IF stmt.type = "" THEN [result |-> result, raised |-> FALSE]
  ELSE
    LET type == stmt.type
        ro == IF type \in writeOperations THEN FALSE ELSE result.isReadOnly
        t1 == result.tables \o stmt.from
        t2 == IF stmt.table # NoTable THEN Append(t1, stmt.table) ELSE t1
    IN IF stmt.readable
         THEN [result |-> [result EXCEPT !.type = type, !.isReadOnly = ro, !.tables = t2],
               raised |-> FALSE]
         ELSE [result |-> [result EXCEPT !.type = type, !.isReadOnly = ro],
               raised |-> TRUE]

\* for (const stmt of ast) this.analyzeStatement(stmt, result), left at the
\* first statement that raises
RECURSIVE analyzeAll(_, _)
analyzeAll(stmts, result) ==
  IF stmts = << >> THEN [result |-> result, raised |-> FALSE]
  ELSE LET r == analyzeStatement(Head(stmts), result) IN
       IF r.raised THEN r ELSE analyzeAll(Tail(stmts), r.result)

\* the result object analyze starts from
NoAnalysis ==
  [isValid |-> FALSE, isReadOnly |-> TRUE, type |-> "unknown",
   tables |-> << >>, errors |-> << >>, warnings |-> << >>]

\* analyze from the parser's answer on: ast.ok = FALSE when astify threw,
\* ast.stmts the statement or statements it returned
analyzeAst(ast) ==
  IF ~ast.ok
    THEN [NoAnalysis EXCEPT !.errors = <<"Parse error">>]
    ELSE LET r == analyzeAll(ast.stmts,
                    [NoAnalysis EXCEPT !.isValid = TRUE,
                                       !.warnings = IF Len(ast.stmts) > 1
                                                      THEN <<"Multiple statements detected">>
                                                      ELSE << >>])
         IN IF r.raised THEN [r.result EXCEPT !.errors = <<"Parse error">>]
                        ELSE r.result

\* SQLValidator.analyze
analyze(sql) == analyzeAst(astify(sql))

\* /;\s*(DROP|TRUNCATE|DELETE\s+FROM\s+\w+\s*;?\s*$)/i  on the raw text
DangerousPattern(sql) ==
  \E i \in 1..Len(sql) :
    /\ sql[i] = ";"
    /\ LET j == SkipWs(sql, i + 1) IN
       /\ j <= Len(sql)
       /\ \/ Upper(sql[j]) \in {"DROP", "TRUNCATE"}
          \/ /\ Upper(sql[j]) = "DELETE"
             /\ j + 4 <= Len(sql)
             /\ IsWs(sql[j + 1]) /\ Upper(sql[j + 2]) = "FROM"
             /\ IsWs(sql[j + 3]) /\ IsWord(sql[j + 4])
             /\ LET k == SkipWs(sql, j + 5)
                    k2 == IF k <= Len(sql) /\ sql[k] = ";" THEN SkipWs(sql, k + 1) ELSE k
                IN k2 = Len(sql) + 1

\* a validateSafe without the textual pattern check: C12 must reject it
validateSafeAstOnly(sql, readOnlyMode) ==
  LET analysis == analyze(sql) IN
  IF ~analysis.isValid
    THEN [safe |-> FALSE, reason |-> analysis.errors]
  ELSE IF readOnlyMode /\ ~analysis.isReadOnly
    THEN [safe |-> FALSE, reason |-> <<"Write operations not allowed in read-only mode">>]
  ELSE [safe |-> TRUE, reason |-> << >>]

\* SQLValidator.validateSafe
validateSafe(sql, readOnlyMode) ==
  LET analysis == analyze(sql) IN
  IF ~analysis.isValid
    THEN [safe |-> FALSE, reason |-> analysis.errors]
  ELSE IF readOnlyMode /\ ~analysis.isReadOnly
    THEN [safe |-> FALSE, reason |-> <<"Write operations not allowed in read-only mode">>]
  ELSE IF DangerousPattern(sql)
    THEN [safe |-> FALSE, reason |-> <<"Potentially dangerous operation detected">>]
  ELSE [safe |-> TRUE, reason |-> << >>]

\* validateSafe on a text for which the parser answers ast and on which the
\* pattern of line 75 gives flagged
validateSafeParsed(ast, flagged, readOnlyMode) ==
  LET analysis == analyzeAst(ast) IN
  IF ~analysis.isValid
    THEN [safe |-> FALSE, reason |-> analysis.errors]
  ELSE IF readOnlyMode /\ ~analysis.isReadOnly
    THEN [safe |-> FALSE, reason |-> <<"Write operations not allowed in read-only mode">>]
  ELSE IF flagged
    THEN [safe |-> FALSE, reason |-> <<"Potentially dangerous operation detected">>]
  ELSE [safe |-> TRUE, reason |-> << >>]

\* /LIMIT\s+\d+/i anywhere in the text
HasLimit(s) ==
  \E i \in 1..Len(s) :
    /\ Upper(s[i]) = "LIMIT"
    /\ LET j == SkipWs(s, i + 1) IN
       j > i + 1 /\ j <= Len(s) /\ IsNumber(s[j])

\* /^SELECT/i
StartsWithSelect(s) == s # << >> /\ Upper(s[1]) = "SELECT"

\* limit: number = 1000, the default taken when the argument is undefined
DefaultLimit(limit) == IF limit = << >> THEN <<"1000">> ELSE limit

\* an addLimit that appends to the untrimmed text: C13 must reject it
addLimitUntrimmed(sql, limit) ==
  IF HasLimit(Trim(sql)) THEN sql
  ELSE IF StartsWithSelect(Trim(sql))
    THEN sql \o <<" ", "LIMIT", " ">> \o DefaultLimit(limit)
  ELSE sql

\* SQLValidator.addLimit; limit is the text `${limit}` interpolates
addLimit(sql, limit) ==
  LET trimmed == Trim(sql) IN
  IF HasLimit(trimmed) THEN sql
  ELSE IF StartsWithSelect(trimmed)
    THEN trimmed \o <<" ", "LIMIT", " ">> \o DefaultLimit(limit)
  ELSE sql

(***************************************************************************)
(* Schema metadata and the semantic layer (src/src/semantic/index.ts)      *)
(***************************************************************************)

\* DatabaseMetadata | null : present = FALSE is null
NoMetadata == [present |-> FALSE, tables |-> << >>]

MetaCustomers ==
  [present |-> TRUE,
   tables |-> << [schema |-> "", name |-> "customers",
                  columns |-> << [name |-> "id", type |-> "INTEGER", isPrimaryKey |-> TRUE,
                                  isForeignKey |-> FALSE, nullable |-> FALSE],
                                 [name |-> "email", type |-> "TEXT", isPrimaryKey |-> FALSE,
                                  isForeignKey |-> FALSE, nullable |-> FALSE] >>] >>]

MetaSales ==
  [present |-> TRUE,
   tables |-> << [schema |-> "sales", name |-> "orders",
                  columns |-> << [name |-> "id", type |-> "INTEGER", isPrimaryKey |-> TRUE,
                                  isForeignKey |-> FALSE, nullable |-> FALSE],
                                 [name |-> "customer_id", type |-> "INTEGER",
                                  isPrimaryKey |-> FALSE, isForeignKey |-> TRUE,
                                  nullable |-> TRUE] >>] >>]

\* two schemas, each with a table named orders
MetaTwoSchemas ==
  [present |-> TRUE,
   tables |-> << [schema |-> "public", name |-> "orders",
                  columns |-> << [name |-> "id", type |-> "INTEGER", isPrimaryKey |-> TRUE,
                                  isForeignKey |-> FALSE, nullable |-> FALSE] >>],
                 [schema |-> "sales", name |-> "orders",
                  columns |-> << [name |-> "total", type |-> "REAL", isPrimaryKey |-> FALSE,
                                  isForeignKey |-> FALSE, nullable |-> TRUE] >>] >>]

\* the metadata a scan can produce
ScannedMetadata == {MetaCustomers}

\* the metadata the registry may hold: setMetadata takes any DatabaseMetadata
RegistryMetadata == ScannedMetadata \cup {MetaSales, MetaTwoSchemas}

\* Array.prototype.join on texts
RECURSIVE Join(_, _)
Join(texts, sep) ==
  IF texts = << >> THEN << >>
  ELSE IF Len(texts) = 1 THEN texts[1]
  ELSE texts[1] \o sep \o Join(Tail(texts), sep)

\* `${table.schema}.${table.name}` or the bare name
QualifiedName(t) ==
  IF t.schema # "" THEN <<t.schema, ".", t.name>> ELSE <<t.name>>

\* a column text that puts FK before PK: C25 must reject it
ColumnTextFKFirst(c) ==
  Join(<< <<c.name>>, <<c.type>> >>
         \o (IF c.isForeignKey THEN << <<"FK">> >> ELSE << >>)
         \o (IF c.isPrimaryKey THEN << <<"PK">> >> ELSE << >>)
         \o (IF ~c.nullable THEN << <<"NOT NULL">> >> ELSE << >>),
       <<" ">>)

\* c.name, c.type and the tags, joined by ' '
ColumnText(c) ==
  Join(<< <<c.name>>, <<c.type>> >>
         \o (IF c.isPrimaryKey THEN << <<"PK">> >> ELSE << >>)
         \o (IF c.isForeignKey THEN << <<"FK">> >> ELSE << >>)
         \o (IF ~c.nullable THEN << <<"NOT NULL">> >> ELSE << >>),
       <<" ">>)

\* SchemaSemanticLayer.generateCompactSchema
generateCompactSchema(metadata) ==
  Join([i \in 1..Len(metadata.tables) |->
          LET t == metadata.tables[i] IN
          QualifiedName(t) \o <<" (">>
            \o Join([j \in 1..Len(t.columns) |-> ColumnText(t.columns[j])], <<", ">>)
            \o <<")">>],
       <<"\n">>)

\* SchemaSemanticLayer.generateTablesList
generateTablesList(metadata) ==
  [i \in 1..Len(metadata.tables) |-> QualifiedName(metadata.tables[i])]

\* SchemaSemanticLayer.findTable: index of the first match, 0 if none.
\* tableName is a text of the shape <<name>> or <<schema, ".", name>>.
findTable(metadata, tableName) ==
  LET matches(t) ==
        \/ tableName = <<t.name>>
        \/ (t.schema # "" /\ tableName = <<t.schema, ".", t.name>>)
        \/ (Len(tableName) >= 2 /\ SubSeq(tableName, Len(tableName) - 1, Len(tableName))
                                     = <<".", t.name>>)
      hits == {i \in 1..Len(metadata.tables) : matches(metadata.tables[i])}
  IN IF hits = {} THEN 0 ELSE CHOOSE i \in hits : \A k \in hits : i <= k

(***************************************************************************)
(* Tool registry (src/src/mcp/tools.ts)                                    *)
(***************************************************************************)

\* registerTools: the catalog, in Map insertion order; each MCPTool object
\* holds its name, description, parameter schema (the property names) and its
\* handler (a reference to the closure, named after the tool)
Tools ==
  << [name |-> "list_tables",
      description |-> "List all tables in the database with their schemas",
      parameters |-> <<"schema">>,
      handler |-> "list_tables"],
     [name |-> "describe_table",
      description |-> "Get detailed information about a table structure",
      parameters |-> <<"table_name", "schema">>,
      handler |-> "describe_table"],
     [name |-> "generate_sql",
      description |-> "Generate SQL query based on natural language description",
      parameters |-> <<"description", "tables">>,
      handler |-> "generate_sql"],
     [name |-> "explain_sql",
      description |-> "Explain what a SQL query does in natural language",
      parameters |-> <<"sql">>,
      handler |-> "explain_sql"],
     [name |-> "run_sql",
      description |-> "Execute a SQL query and return results",
      parameters |-> <<"sql", "limit">>,
      handler |-> "run_sql"] >>

\* MCPToolRegistry.getTools: Array.from(this.tools.values())
getTools == Tools

ToolNames == {Tools[i].name : i \in 1..Len(Tools)}

\* an absent (undefined) parameter
Absent == << >>

\* a decoded parameter object; every parameter is a text or Absent
Params(sql, limit, schema, table_name, description) ==
  [sql |-> sql, limit |-> limit, schema |-> schema, table_name |-> table_name,
   description |-> description]

\* a falsy limit: undefined, 0
Falsy(limit) == limit = Absent \/ limit = <<"0">>

\* what a handler does up to its first await on the Database Provider:
\*   kind = "return"   : it returns `text` as its (serialised) result
\*   kind = "throw"    : it throws an Error whose message is `text`
\*   kind = "provider" : it has called the provider operation `call` (runQuery
\*                       with `sql`) and awaits it
\* handler, params: the handler executeTool invoked and its argument ("" and
\* NoParams when it invoked none)
\* args: the arguments of the provider operation other than runQuery
NoParams == Params(Absent, Absent, Absent, Absent, Absent)
HandlerReturn(text) ==
  [kind |-> "return", text |-> text, call |-> "", sql |-> << >>, limited |-> FALSE,
   handler |-> "", params |-> NoParams, args |-> << >>]
HandlerThrow(text) ==
  [kind |-> "throw", text |-> text, call |-> "", sql |-> << >>, limited |-> FALSE,
   handler |-> "", params |-> NoParams, args |-> << >>]
HandlerAwait(call, sql, limited) ==
  [kind |-> "provider", text |-> << >>, call |-> call, sql |-> sql, limited |-> limited,
   handler |-> "", params |-> NoParams, args |-> << >>]

\* list_tables handler
list_tables(params, regMeta) ==
  IF regMeta.present
    THEN HandlerReturn(<<"{tables:">> \o Join(generateTablesList(regMeta), <<",">>)
                         \o <<"}">>)
    ELSE [HandlerAwait("listTables", << >>, FALSE) EXCEPT !.args = <<params.schema>>]

\* describe_table handler
describe_table(params, regMeta) ==
  IF regMeta.present /\ findTable(regMeta, params.table_name) # 0
    THEN HandlerReturn(<<"{table:">>
           \o QualifiedName(regMeta.tables[findTable(regMeta, params.table_name)])
           \o <<"}">>)
    ELSE [HandlerAwait("describeTable", << >>, FALSE)
            EXCEPT !.args = <<params.table_name, params.schema>>]

\* generate_sql handler
generate_sql(params) ==
  HandlerReturn(<<"{message:", "SQL generation should be handled by the LLM", "description:">>
                  \o params.description \o <<"}">>)

\* explain_sql handler
explain_sql(params) ==
  LET analysis == analyze(params.sql) IN
  HandlerReturn(<<"{sql:">> \o params.sql
                  \o <<"valid:", IF analysis.isValid THEN "true" ELSE "false",
                       "type:", analysis.type,
                       "read_only:", IF analysis.isReadOnly THEN "true" ELSE "false", "}">>)

\* const limit = params.limit || 1000, as `${limit}` renders it
EffectiveLimit(params) == IF Falsy(params.limit) THEN <<"1000">> ELSE params.limit

\* the text run_sql hands to provider.runQuery once validation has passed
RunSqlText(params) ==
  IF analyze(params.sql).type = "select"
    THEN addLimit(params.sql, EffectiveLimit(params))
    ELSE params.sql

\* a run_sql that skips the validation gate: C2 must reject it
run_sql_ungated(params, readOnlyMode) ==
  HandlerAwait("runQuery", RunSqlText(params), analyze(params.sql).type = "select")

\* run_sql handler
run_sql(params, readOnlyMode) ==
  LET validation == validateSafe(params.sql, readOnlyMode) IN
  IF ~validation.safe
    THEN HandlerThrow(<<"SQL validation failed: ">> \o validation.reason)
    ELSE HandlerAwait("runQuery", RunSqlText(params),
                      analyze(params.sql).type = "select")

\* tool.handler(params) for a tool of the catalog
Handler(name, params, readOnlyMode, regMeta) ==
  CASE name = "list_tables"    -> list_tables(params, regMeta)
    [] name = "describe_table" -> describe_table(params, regMeta)
    [] name = "generate_sql"   -> generate_sql(params)
    [] name = "explain_sql"    -> explain_sql(params)
    [] name = "run_sql"        -> run_sql(params, readOnlyMode)

\* the message of the Error executeTool re-throws for a handler failure
ToolExecutionError(message) == <<"Tool execution failed: ">> \o message

\* an executeTool that lets the handler's error through as it is: C18 must
\* reject it
executeToolUnwrapped(name, params, readOnlyMode, regMeta) ==
  IF name \notin ToolNames
    THEN HandlerThrow(<<"Tool not found: ", name>>)
    ELSE [Handler(name, params, readOnlyMode, regMeta)
            EXCEPT !.handler = name, !.params = params]

\* MCPToolRegistry.executeTool up to the handler's first await
executeTool(name, params, readOnlyMode, regMeta) ==
  IF name \notin ToolNames
    THEN HandlerThrow(<<"Tool not found: ", name>>)
    ELSE LET h == Handler(name, params, readOnlyMode, regMeta) IN
         [IF h.kind = "throw" THEN HandlerThrow(ToolExecutionError(h.text)) ELSE h
            EXCEPT !.handler = name, !.params = params]

\* what the awaited provider call resolves to, serialised by the handler
ProviderResult(pending) ==
  CASE pending.call = "runQuery" ->
         <<"{rows,rowCount,fields,limited:", IF pending.limited THEN "true" ELSE "false", "}">>
    [] pending.call = "listTables" -> <<"{tables,count}">>
    [] OTHER -> <<"{table}">>

(***************************************************************************)
(* Bounds of the model                                                     *)
(***************************************************************************)

\* chat() calls the host starts on the orchestrator (they may overlap)
MaxChats == 2

\* assistant replies carrying tool calls that the LLM Client returns, over
\* all chat() calls together, once chat() calls overlap
MaxToolRounds == 1

(***************************************************************************)
(* Messages, tool calls and the inputs of the model                        *)
(***************************************************************************)

NoName == ""

Message(role, content) ==
  [role |-> role, content |-> content, name |-> NoName,
   has_tool_calls |-> FALSE, tool_calls |-> << >>, tool_call_id |-> NoName]

\* a reply the client passes on under the role "system": C7 must reject it
SystemRoleReply(content, has_tool_calls, tool_calls) ==
  [Message("system", content) EXCEPT !.has_tool_calls = has_tool_calls,
                                     !.tool_calls = tool_calls]

\* the message the LLM clients build from the provider's reply
AssistantMessage(content, has_tool_calls, tool_calls) ==
  [Message("assistant", content) EXCEPT !.has_tool_calls = has_tool_calls,
                                        !.tool_calls = tool_calls]

\* ToolCall.function.arguments: a text that JSON.parse decodes to `value`,
\* or a text it rejects
WellFormed(value) == [wellFormed |-> TRUE, value |-> value]
Malformed == [wellFormed |-> FALSE,
              value |-> Params(Absent, Absent, Absent, Absent, Absent)]

ToolCall(id, name, arguments) ==
  [id |-> id, type |-> "function", function |-> [name |-> name, arguments |-> arguments]]

\* JSON.parse(toolCall.function.arguments)
JSONParse(arguments) ==
  IF arguments.wellFormed
    THEN [ok |-> TRUE, value |-> arguments.value, message |-> << >>]
    ELSE [ok |-> FALSE, value |-> arguments.value,
          message |-> <<"Unexpected token in JSON">>]

qSelect     == <<"SELECT", " ", "*", " ", "FROM", " ", "t">>
qSelectSemi == qSelect \o <<";">>
qDelete     == <<"DELETE", " ", "FROM", " ", "t">>
qStacked    == qSelect \o <<";", " ", "DROP", " ", "TABLE", " ", "t">>
qGarbage    == <<"SELEC", " ", "t">>
\* a select that brings a LIMIT clause of its own
qSelectOwnLimit == qSelect \o <<" ", "LIMIT", " ", "1000">>


tcBadArgs   == ToolCall("call_1", "run_sql", Malformed)
tcUnknown   == ToolCall("call_2", "drop_database",
                 WellFormed(Params(Absent, Absent, Absent, Absent, Absent)))
tcRunDelete == ToolCall("call_3", "run_sql",
                 WellFormed(Params(qDelete, Absent, Absent, Absent, Absent)))
tcRunSelect == ToolCall("call_4", "run_sql",
                 WellFormed(Params(qSelectSemi, <<"5">>, Absent, Absent, Absent)))

\* the assistant messages the LLM Client may return
ReplyText    == AssistantMessage(<<"plain text">>, FALSE, << >>)
ReplyTools   == AssistantMessage(<< >>, TRUE,
                  <<tcBadArgs, tcUnknown, tcRunDelete, tcRunSelect>>)

LLMReplies == {ReplyText, ReplyTools}

\* the Error an LLM client throws on a non-success response
LLMError == <<"LLM API error: ", "500">>

UserMessages == {<<"how many customers?">>}

(***************************************************************************)
(* JSON texts and values, as far as parseResponse reads them.  A JSON text *)
(* is a sequence of tokens; a string literal is a quote, its body (absent  *)
(* for the empty string) and a quote.                                      *)
(***************************************************************************)

\* JavaScript values: a string carries its text, a number or boolean its
\* literal; an object carries its keys and their values in order
Str(text)   == [t |-> "string", s |-> text, keys |-> << >>, vals |-> << >>]
Num(tok)    == [t |-> "number", s |-> <<tok>>, keys |-> << >>, vals |-> << >>]
Bool(tok)   == [t |-> "boolean", s |-> <<tok>>, keys |-> << >>, vals |-> << >>]
Null        == [t |-> "null", s |-> << >>, keys |-> << >>, vals |-> << >>]
Undefined   == [t |-> "undefined", s |-> << >>, keys |-> << >>, vals |-> << >>]
Obj(keys, vals) == [t |-> "object", s |-> << >>, keys |-> keys, vals |-> vals]

Quote == "\""

\* the scalar that starts at token i of c: [ok, value, next]
ScalarAt(c, i) ==
  LET no == [ok |-> FALSE, value |-> Undefined, next |-> i] IN
  IF i > Len(c) THEN no
  ELSE IF c[i] = Quote
    THEN IF i + 1 <= Len(c) /\ c[i + 1] = Quote
           THEN [ok |-> TRUE, value |-> Str(<< >>), next |-> i + 2]
         ELSE IF i + 2 <= Len(c) /\ c[i + 2] = Quote
           THEN [ok |-> TRUE, value |-> Str(<<c[i + 1]>>), next |-> i + 3]
         ELSE no
  ELSE IF IsNumber(c[i]) THEN [ok |-> TRUE, value |-> Num(c[i]), next |-> i + 1]
  ELSE IF c[i] \in {"true", "false"} THEN [ok |-> TRUE, value |-> Bool(c[i]), next |-> i + 1]
  ELSE IF c[i] = "null" THEN [ok |-> TRUE, value |-> Null, next |-> i + 1]
  ELSE no

\* the members of an object from token i on, up to the closing brace
RECURSIVE MembersAt(_, _, _, _)
MembersAt(c, i, keys, vals) ==
  LET no == [ok |-> FALSE, value |-> Undefined]
      k == ScalarAt(c, i)
  IN
  IF ~k.ok \/ k.value.t # "string" \/ k.next > Len(c) \/ c[k.next] # ":" THEN no
  ELSE LET v == ScalarAt(c, k.next + 1) IN
       IF ~v.ok \/ v.next > Len(c) THEN no
       ELSE IF c[v.next] = "}"
         THEN IF v.next = Len(c)
                THEN [ok |-> TRUE,
                      value |-> Obj(Append(keys, k.value.s), Append(vals, v.value))]
                ELSE no
       ELSE IF c[v.next] = ","
         THEN MembersAt(c, v.next + 1, Append(keys, k.value.s), Append(vals, v.value))
       ELSE no

\* JSON.parse(content): ok = FALSE when it throws a SyntaxError
JSONDecode(c) ==
  LET no == [ok |-> FALSE, value |-> Undefined] IN
  IF c = << >> THEN no
  ELSE IF c[1] = "{"
    THEN IF Len(c) = 2 /\ c[2] = "}" THEN [ok |-> TRUE, value |-> Obj(<< >>, << >>)]
         ELSE MembersAt(c, 2, << >>, << >>)
  ELSE LET v == ScalarAt(c, 1) IN
       IF v.ok /\ v.next = Len(c) + 1 THEN [ok |-> TRUE, value |-> v.value] ELSE no

\* json[key]: the value of the last member named key, undefined if there is
\* none or json is not an object
RECURSIVE Member(_, _)
Member(json, key) ==
  IF json.keys = << >> THEN Undefined
  ELSE IF json.keys[Len(json.keys)] = key THEN json.vals[Len(json.vals)]
  ELSE Member([json EXCEPT !.keys = SubSeq(@, 1, Len(@) - 1),
                           !.vals = SubSeq(@, 1, Len(@) - 1)], key)

\* the truthiness of a JavaScript value
Truthy(v) ==
  CASE v.t = "string"  -> v.s # << >>
    [] v.t = "number"  -> v.s # <<"0">>
    [] v.t = "boolean" -> v.s = <<"true">>
    [] v.t = "object"  -> TRUE
    [] OTHER           -> FALSE

\* the object literal parseResponse falls back to
TextResponse(content) ==
  Obj(<< <<"response_type">>, <<"description">>, <<"raw_response">> >>,
      << Str(<<"text">>), Str(content), Str(content) >>)

\* ChatOrchestrator.parseResponse
parseResponse(content) ==
  LET json == JSONDecode(content) IN
  IF /\ json.ok
     /\ json.value.t # "null"
     /\ Truthy(Member(json.value, <<"response_type">>))
     /\ Truthy(Member(json.value, <<"description">>))
    THEN json.value
    ELSE TextResponse(content)

(***************************************************************************)
(* ChatOrchestrator (src/unnamed/part_002)                                 *)
(***************************************************************************)

maxIterations == 5

\* a loop that admits one round too many: C3 must reject it
LoopContinuesInclusive(it) == it <= maxIterations

\* while (iterations < maxIterations)
\* a loop that allows a sixth round: C26 must reject it
LoopContinuesSixth(it) == it < maxIterations + 1

LoopContinues(it) == it < maxIterations

MaxIterationsError == <<"Max iterations reached without final response">>

\* the text initializeSystemPrompt builds
SystemPromptText(metadata) ==
  <<"You are a helpful database assistant", "DATABASE SCHEMA:">>
    \o (IF metadata.present THEN generateCompactSchema(metadata)
                            ELSE <<"No schema loaded yet.">>)
    \o <<"CAPABILITIES:">>
    \o Join([i \in 1..Len(getTools) |->
               <<"- ", getTools[i].name, ": ", getTools[i].description>>], <<"\n">>)
    \o <<"GUIDELINES:", "RESPONSE FORMAT:">>

\* this.messages after initializeSystemPrompt
InitialHistory(metadata) == << Message("system", SystemPromptText(metadata)) >>

\* the tool message pushed for a tool call
ToolMessage(toolCall, content) ==
  [Message("tool", content) EXCEPT !.tool_call_id = toolCall.id,
                                   !.name = toolCall.function.name]

\* JSON.stringify({ error: error.message })
ErrorContent(message) == <<"{error:">> \o message \o <<"}">>

\* an error message that loses the call's id and name: C4 must reject it
ToolErrorMessageAnonymous(toolCall, message) == Message("tool", ErrorContent(message))

\* the message pushed in the catch branch of the dispatch loop
ToolErrorMessage(toolCall, message) == ToolMessage(toolCall, ErrorContent(message))

\* response.tool_calls && response.tool_calls.length > 0
HasToolCalls(response) == response.has_tool_calls /\ Len(response.tool_calls) > 0

Calls == 1..MaxChats

NoPending == HandlerReturn(<< >>)

\* the record of the last operation that ran (a history variable):
\*   op      : the operation
\*   p, idx  : the chat() call and the tool call index it was at
\*   tool    : the tool name dispatched ("" if none)
\*   failed  : the dispatch ended in the catch branch, with `message`
\*   runSql  : the run_sql handler was invoked, on `sql` under `mode`,
\*             `lastSet` being the last argument of setReadOnlyMode
\*   ranQuery: provider.runQuery was invoked, with `query`
\*   handler : the handler executeTool invoked ("" if none), with `params`;
\*             kind, text, limited: what executeTool gave up to the await
\*   args    : the arguments of the provider operation the handler awaits
\*   tools   : what getTools returned
\*   sent    : the history passed to the LLM Client when the operation ended
\*             in a call of it (<< >> otherwise)
Op(op, p) ==
  [op |-> op, p |-> p, idx |-> 0, tool |-> "", failed |-> FALSE, message |-> << >>,
   runSql |-> FALSE, sql |-> << >>, mode |-> TRUE, lastSet |-> "never",
   ranQuery |-> FALSE, query |-> << >>,
   handler |-> "", params |-> NoParams, kind |-> "", text |-> << >>,
   limited |-> FALSE, args |-> << >>, tools |-> << >>, sent |-> << >>]

VARIABLES
  messages,      \* ChatOrchestrator.messages, the history
  metadata,      \* ChatOrchestrator.metadata
  regMetadata,   \* MCPToolRegistry.metadata
  readOnlyMode,  \* MCPToolRegistry.readOnlyMode
  pc,            \* where each chat() call is: idle, llm, dispatch, tool, done, failed
  iterations,    \* chat()'s local counter, per call
  response,      \* chat()'s current assistant reply, per call
  toolIdx,       \* index of the tool call the for loop is at, per call
  pending,       \* the provider call a handler awaits, per call
  outcome,       \* how each chat() call ended: its result or the error it threw
  llmCalls,      \* history variable: LLM Client calls made, per call
  toolRounds,    \* history variable: LLM replies that carried tool calls, per call
  dispatched,    \* history variable: tool calls dispatched, per call
  modeArg,       \* history variable: the last argument of setReadOnlyMode
  lastOp,        \* history variable: the last operation that ran
  sessions,      \* server.ts: the sessions Map, session id -> session object
  heap,          \* server.ts: the objects the requests created
  inflight,      \* server.ts: the requests suspended at an await
  stored         \* history variable: the provider the last successful connect
                 \* stored, per session id

vars == <<messages, metadata, regMetadata, readOnlyMode, pc, iterations, response,
          toolIdx, pending, outcome, llmCalls, toolRounds, dispatched, modeArg,
          lastOp, sessions, heap, inflight, stored>>

serverVars == <<sessions, heap, inflight, stored>>

registryVars == <<regMetadata, readOnlyMode, modeArg>>
callVars == <<pc, iterations, response, toolIdx, pending, outcome, llmCalls,
              toolRounds, dispatched>>

NoOutcome == [kind |-> "none", error |-> << >>, value |-> Undefined]

\* the values of the x-session-id header the requests carry ("": no header)
SessionHeaders == {"", "s2"}

\* a session key that ignores the header: C23 must reject it
SessionKeyShared(header) == "default"

\* req.headers['x-session-id'] || 'default'
SessionKey(header) == IF header = "" THEN "default" ELSE header

SessionIds == {SessionKey(h) : h \in SessionHeaders}

\* no object: null, or no entry in the Map
None == 0

\* the host process after start-up: `new Map()`, no object created yet
ServerStart ==
  /\ sessions = [id \in SessionIds |-> None]
  /\ heap = [session |-> << >>, provider |-> << >>, registry |-> << >>,
             orchestrator |-> << >>]
  /\ inflight = {}
  /\ stored = [id \in SessionIds |-> None]

\* the state after `new MCPToolRegistry(provider, metadata)` and
\* `new ChatOrchestrator(toolRegistry, llmClient, metadata)`
Init ==
  /\ metadata \in {NoMetadata, MetaCustomers}
  /\ regMetadata = metadata
  /\ messages = InitialHistory(metadata)
  /\ readOnlyMode = TRUE
  /\ pc = [p \in Calls |-> "idle"]
  /\ iterations = [p \in Calls |-> 0]
  /\ response = [p \in Calls |-> ReplyText]
  /\ toolIdx = [p \in Calls |-> 0]
  /\ pending = [p \in Calls |-> NoPending]
  /\ outcome = [p \in Calls |-> NoOutcome]
  /\ llmCalls = [p \in Calls |-> 0]
  /\ toolRounds = [p \in Calls |-> 0]
  /\ dispatched = [p \in Calls |-> 0]
  /\ modeArg = "never"
  /\ lastOp = Op("init", 0)
  /\ ServerStart

\* a chat() call is between two awaits on I/O: the event loop runs nothing else
Running == \E p \in Calls : pc[p] = "dispatch"

RECURSIVE SumTo(_, _)
SumTo(f, n) == IF n = 0 THEN 0 ELSE f[n] + SumTo(f, n - 1)

TotalToolRounds == SumTo(toolRounds, MaxChats)

\* a second chat() call has been started on the orchestrator
Overlapped == MaxChats > 1 /\ pc[2] # "idle"

\* the top of the while loop after `it` iterations: the next LLM Client call,
\* or the throw after the loop
LoopTop(p, it) ==
  IF LoopContinues(it)
    THEN /\ iterations' = [iterations EXCEPT ![p] = it + 1]
         /\ llmCalls' = [llmCalls EXCEPT ![p] = @ + 1]
         /\ pc' = [pc EXCEPT ![p] = "llm"]
         /\ outcome' = outcome
    ELSE /\ iterations' = iterations
         /\ llmCalls' = llmCalls
         /\ pc' = [pc EXCEPT ![p] = "failed"]
         /\ outcome' = [outcome EXCEPT ![p] =
                          [kind |-> "max_iterations", error |-> MaxIterationsError, value |-> Undefined]]

\* this.messages as this.llmClient.chat receives it when the step of call p
\* ends at the await of line 234 (<< >> when it ends elsewhere)
SentBy(p) == IF pc'[p] = "llm" THEN messages' ELSE << >>

\* the end of one pass of `for (const toolCall of response.tool_calls)`
AfterToolCall(p) ==
  IF toolIdx[p] < Len(response[p].tool_calls)
    THEN /\ toolIdx' = [toolIdx EXCEPT ![p] = @ + 1]
         /\ pc' = [pc EXCEPT ![p] = "dispatch"]
         /\ UNCHANGED <<iterations, llmCalls, outcome>>
    ELSE /\ toolIdx' = toolIdx
         /\ LoopTop(p, iterations[p])

\* chat(userMessage) up to its first await
ChatStart(p, userMessage) ==
  /\ ~Running
  /\ pc[p] = "idle"
  /\ p > 1 => (pc[p - 1] # "idle" /\ TotalToolRounds <= MaxToolRounds)
  /\ messages' = Append(messages, Message("user", userMessage))
  /\ LoopTop(p, 0)
  /\ lastOp' = [Op("chat", p) EXCEPT !.sent = SentBy(p)]
  /\ UNCHANGED <<serverVars, metadata, registryVars, response, toolIdx, pending, toolRounds,
                 dispatched>>

\* the LLM Client call resolves with an assistant message
LLMReply(p, reply) ==
  /\ ~Running
  /\ pc[p] = "llm"
  /\ (Overlapped /\ HasToolCalls(reply)) => TotalToolRounds < MaxToolRounds
  /\ messages' = Append(messages, reply)
  /\ response' = [response EXCEPT ![p] = reply]
  /\ IF HasToolCalls(reply)
       THEN /\ pc' = [pc EXCEPT ![p] = "dispatch"]
            /\ toolIdx' = [toolIdx EXCEPT ![p] = 1]
            /\ toolRounds' = [toolRounds EXCEPT ![p] = @ + 1]
            /\ outcome' = outcome
       ELSE /\ pc' = [pc EXCEPT ![p] = "done"]
            /\ outcome' = [outcome EXCEPT ![p] = [kind |-> "returned", error |-> << >>,
                              value |-> parseResponse(reply.content)]]
            /\ UNCHANGED <<toolIdx, toolRounds>>
  /\ lastOp' = Op("llmReply", p)
  /\ UNCHANGED <<serverVars, metadata, registryVars, iterations, pending, llmCalls, dispatched>>

\* an LLM failure that chat() swallows, going on to the next round: C6 must
\* reject it
LLMFailSwallowed(p) ==
  /\ ~Running
  /\ pc[p] = "llm"
  /\ LoopTop(p, iterations[p])
  /\ lastOp' = Op("llmFail", p)
  /\ UNCHANGED <<serverVars, messages, metadata, registryVars, response, toolIdx, pending,
                 toolRounds, dispatched>>

\* an LLM failure after which chat() takes back the last message of the
\* history: C29 must reject it
LLMFailRollsBack(p) ==
  /\ ~Running
  /\ pc[p] = "llm"
  /\ pc' = [pc EXCEPT ![p] = "failed"]
  /\ messages' = SubSeq(messages, 1, Len(messages) - 1)
  /\ outcome' = [outcome EXCEPT ![p] = [kind |-> "llm_error", error |-> LLMError, value |-> Undefined]]
  /\ lastOp' = Op("llmFail", p)
  /\ UNCHANGED <<serverVars, metadata, registryVars, iterations, response, toolIdx,
                 pending, llmCalls, toolRounds, dispatched>>

\* the LLM Client call rejects: chat() has no try around it
LLMFail(p) ==
  /\ ~Running
  /\ pc[p] = "llm"
  /\ pc' = [pc EXCEPT ![p] = "failed"]
  /\ outcome' = [outcome EXCEPT ![p] = [kind |-> "llm_error", error |-> LLMError, value |-> Undefined]]
  /\ lastOp' = Op("llmFail", p)
  /\ UNCHANGED <<serverVars, messages, metadata, registryVars, iterations, response, toolIdx,
                 pending, llmCalls, toolRounds, dispatched>>

\* the body of the try block of the dispatch loop, up to the handler's await:
\* JSON.parse, then executeTool
TryToolCall(toolCall, mode, regMeta) ==
  LET args == JSONParse(toolCall.function.arguments) IN
  IF args.ok THEN executeTool(toolCall.function.name, args.value, mode, regMeta)
             ELSE HandlerThrow(args.message)

\* the record of one dispatch: r is what TryToolCall gave
DispatchOp(p, idx, toolCall, r) ==
  LET args == JSONParse(toolCall.function.arguments)
      ranSql == args.ok /\ toolCall.function.name = "run_sql"
  IN [Op("dispatch", p) EXCEPT
        !.idx = idx, !.tool = toolCall.function.name,
        !.failed = (r.kind = "throw"), !.message = r.text,
        !.runSql = ranSql,
        !.sql = IF ranSql THEN args.value.sql ELSE << >>,
        !.mode = readOnlyMode, !.lastSet = modeArg,
        !.ranQuery = (r.kind = "provider" /\ r.call = "runQuery"),
        !.query = r.sql,
        !.handler = r.handler, !.params = r.params, !.kind = r.kind,
        !.text = r.text, !.limited = r.limited, !.args = r.args]

\* one pass of the for loop on toolCall, r being what the try block gave up
\* to the handler's await: the push, or the wait for the Database Provider
DispatchOutcome(p, toolCall, r) ==
  /\ dispatched' = [dispatched EXCEPT ![p] = @ + 1]
  /\ CASE r.kind = "throw" ->
            /\ messages' = Append(messages, ToolErrorMessage(toolCall, r.text))
            /\ AfterToolCall(p)
            /\ UNCHANGED pending
       [] r.kind = "return" ->
            /\ messages' = Append(messages, ToolMessage(toolCall, r.text))
            /\ AfterToolCall(p)
            /\ UNCHANGED pending
       [] r.kind = "provider" ->
            /\ pending' = [pending EXCEPT ![p] = r]
            /\ pc' = [pc EXCEPT ![p] = "tool"]
            /\ UNCHANGED <<messages, iterations, toolIdx, llmCalls, outcome>>
  /\ lastOp' = [DispatchOp(p, toolIdx[p], toolCall, r) EXCEPT !.sent = SentBy(p)]

\* one pass of the for loop, up to the push or to the handler's await on the
\* Database Provider
Dispatch(p) ==
  /\ pc[p] = "dispatch"
  /\ DispatchOutcome(p, response[p].tool_calls[toolIdx[p]],
                     TryToolCall(response[p].tool_calls[toolIdx[p]],
                                 readOnlyMode, regMetadata))
  /\ UNCHANGED <<serverVars, metadata, registryVars, response, toolRounds>>

\* the message of the TypeError JSON.stringify throws for a result it cannot
\* serialise (a BigInt column value, a cyclic object)
SerializeError == <<"Do not know how to serialize a BigInt">>

\* the awaited provider call resolves and the handler returns: the result is
\* pushed, or JSON.stringify throws inside the try and the catch pushes
ProviderReturn(p, serializable) ==
  /\ ~Running
  /\ pc[p] = "tool"
  /\ LET toolCall == response[p].tool_calls[toolIdx[p]] IN
     /\ messages' = Append(messages,
          IF serializable THEN ToolMessage(toolCall, ProviderResult(pending[p]))
                          ELSE ToolErrorMessage(toolCall, SerializeError))
  /\ AfterToolCall(p)
  /\ lastOp' = [Op("providerReturn", p) EXCEPT
                  !.idx = toolIdx[p],
                  !.tool = response[p].tool_calls[toolIdx[p]].function.name,
                  !.failed = ~serializable,
                  !.message = IF serializable THEN << >> ELSE SerializeError,
                  !.sent = SentBy(p)]
  /\ UNCHANGED <<serverVars, metadata, registryVars, response, pending, toolRounds, dispatched>>

ProviderError == <<"database error">>

\* a provider failure that escapes the dispatch loop and ends chat(): C5 must
\* reject it
ProviderFailAborts(p) ==
  /\ ~Running
  /\ pc[p] = "tool"
  /\ pc' = [pc EXCEPT ![p] = "failed"]
  /\ outcome' = [outcome EXCEPT ![p] =
                   [kind |-> "tool_error", error |-> ToolExecutionError(ProviderError), value |-> Undefined]]
  /\ lastOp' = [Op("providerFail", p) EXCEPT
                  !.idx = toolIdx[p], !.failed = TRUE,
                  !.tool = response[p].tool_calls[toolIdx[p]].function.name,
                  !.message = ToolExecutionError(ProviderError)]
  /\ UNCHANGED <<serverVars, messages, metadata, registryVars, iterations, response, toolIdx,
                 pending, llmCalls, toolRounds, dispatched>>

\* the awaited provider call rejects: executeTool re-throws, the loop catches
ProviderFail(p) ==
  /\ ~Running
  /\ pc[p] = "tool"
  /\ messages' = Append(messages,
       ToolErrorMessage(response[p].tool_calls[toolIdx[p]],
                        ToolExecutionError(ProviderError)))
  /\ AfterToolCall(p)
  /\ lastOp' = [Op("providerFail", p) EXCEPT
                  !.idx = toolIdx[p], !.failed = TRUE,
                  !.tool = response[p].tool_calls[toolIdx[p]].function.name,
                  !.message = ToolExecutionError(ProviderError),
                  !.sent = SentBy(p)]
  /\ UNCHANGED <<serverVars, metadata, registryVars, response, pending, toolRounds, dispatched>>

\* ChatOrchestrator.clearHistory
ClearHistory ==
  /\ ~Running
  /\ messages' = InitialHistory(metadata)
  /\ lastOp' = Op("clearHistory", 0)
  /\ UNCHANGED <<serverVars, metadata, registryVars, callVars>>

\* a setMetadata that rebuilds the prompt before it stores m: C9 must reject it
SetMetadataStalePrompt(m) ==
  /\ ~Running
  /\ metadata' = m
  /\ messages' = InitialHistory(metadata)
  /\ lastOp' = Op("setMetadata", 0)
  /\ UNCHANGED <<serverVars, registryVars, callVars>>

\* ChatOrchestrator.setMetadata
SetMetadata(m) ==
  /\ ~Running
  /\ metadata' = m
  /\ messages' = InitialHistory(m)
  /\ lastOp' = Op("setMetadata", 0)
  /\ UNCHANGED <<serverVars, registryVars, callVars>>

\* MCPToolRegistry.setReadOnlyMode
SetReadOnlyMode(readOnly) ==
  /\ ~Running
  /\ readOnlyMode' = readOnly
  /\ modeArg' = IF readOnly THEN "true" ELSE "false"
  /\ UNCHANGED <<serverVars, messages, metadata, regMetadata, callVars, lastOp>>

\* POST /api/query: session.provider.runQuery(sql)
ApiQuery(sql) ==
  /\ ~Running
  /\ lastOp' = [Op("apiQuery", 0) EXCEPT !.ranQuery = TRUE, !.query = sql,
                                         !.mode = readOnlyMode]
  /\ UNCHANGED <<serverVars, messages, metadata, registryVars, callVars>>

Next ==
  \/ \E p \in Calls, u \in UserMessages : ChatStart(p, u)
  \/ \E p \in Calls, reply \in LLMReplies : LLMReply(p, reply)
  \/ \E p \in Calls : LLMFail(p)
  \/ \E p \in Calls : Dispatch(p)
  \/ \E p \in Calls, serializable \in BOOLEAN : ProviderReturn(p, serializable)
  \/ \E p \in Calls : ProviderFail(p)
  \/ ClearHistory
  \/ \E m \in ScannedMetadata : SetMetadata(m)

Spec == Init /\ [][Next]_vars

\* `await this.llmClient.chat(...)` settles: the call resolves or rejects
LLMSettles(p) == (\E reply \in LLMReplies : LLMReply(p, reply)) \/ LLMFail(p)

\* `await this.toolRegistry.executeTool(...)` settles once the handler's
\* provider call resolves or rejects
ToolSettles(p) ==
  (\E serializable \in BOOLEAN : ProviderReturn(p, serializable)) \/ ProviderFail(p)

\* an await of a chat() call settles
AwaitSettles == \E p \in Calls : LLMSettles(p) \/ ToolSettles(p)

\* Spec, where every LLM Client call and every tool handler invocation
\* settles (an await that can settle does, while one is pending) and the
\* synchronous code between two awaits runs to its end (the event loop gets
\* control back again and again)
LiveSpec == Spec /\ WF_vars(AwaitSettles) /\ []<>(~Running)

(***************************************************************************)
(* The tool registry and the direct query endpoint on their own: every     *)
(* tool call the model may send is dispatched as chat() dispatches it, up  *)
(* to the handler's await.                                                 *)
(***************************************************************************)

\* a caller-supplied limit that is not a number
LimitInjection == <<"1", ";", " ", "DROP", " ", "TABLE", " ", "t">>

ToolSqlTexts == {qSelect, qSelectSemi, qSelectOwnLimit, qDelete, qStacked, qGarbage}
ToolLimits == {Absent, <<"0">>, <<"5">>, LimitInjection}

RegistryToolCalls ==
  {ToolCall("call_1", "run_sql", WellFormed(Params(sql, limit, Absent, Absent, Absent))) :
     sql \in ToolSqlTexts, limit \in ToolLimits}
  \cup {tcBadArgs, tcUnknown,
        ToolCall("call_1", "list_tables",
                 WellFormed(Params(Absent, Absent, <<"sales">>, Absent, Absent))),
        ToolCall("call_1", "describe_table",
                 WellFormed(Params(Absent, Absent, Absent, <<"customers">>, Absent))),
        ToolCall("call_1", "describe_table",
                 WellFormed(Params(Absent, Absent, Absent, <<"sales", ".", "orders">>,
                                   Absent))),
        ToolCall("call_1", "generate_sql",
                 WellFormed(Params(Absent, Absent, Absent, Absent, <<"count rows">>))),
        ToolCall("call_1", "explain_sql",
                 WellFormed(Params(qDelete, Absent, Absent, Absent, Absent)))}

\* the try block of the dispatch loop on one tool call
ToolDispatch(toolCall) ==
  /\ lastOp' = DispatchOp(0, 0, toolCall,
                           TryToolCall(toolCall, readOnlyMode, regMetadata))
  /\ UNCHANGED <<serverVars, messages, metadata, registryVars, callVars>>

\* MCPToolRegistry.setMetadata
RegistrySetMetadata(m) ==
  /\ regMetadata' = m
  /\ UNCHANGED <<serverVars, messages, metadata, readOnlyMode, modeArg, callVars, lastOp>>

\* a caller reads the catalog: getTools(), as chat() does for every LLM call
ListTools ==
  /\ lastOp' = [Op("getTools", 0) EXCEPT !.tools = getTools]
  /\ UNCHANGED <<serverVars, messages, metadata, registryVars, callVars>>

ToolNext ==
  \/ ListTools
  \/ \E b \in BOOLEAN : SetReadOnlyMode(b)
  \/ \E m \in RegistryMetadata : RegistrySetMetadata(m)
  \/ \E toolCall \in RegistryToolCalls : ToolDispatch(toolCall)
  \/ \E sql \in ToolSqlTexts : ApiQuery(sql)

ToolSpec == Init /\ [][ToolNext]_vars


(***************************************************************************)
(* The SQL validator on its own: validateSafe, analyze and addLimit are    *)
(* called on every text of SqlTexts, and analyze also on every answer the  *)
(* parser may give.                                                        *)
(***************************************************************************)

sSelectLower == <<"select", " ", "*", " ", "from", " ", "t">>
sSelectLimit == qSelect \o <<" ", "LIMIT", " ", "5">>
sSelectLimitLower == sSelectLower \o <<" ", "limit", " ", "5">>
sSelectOne   == <<"SELECT", " ", "1">>
sDeleteLower == <<"delete", " ", "from", " ", "t">>
sDrop        == <<"DROP", " ", "TABLE", " ", "t">>
sDropLower   == <<"drop", " ", "table", " ", "t">>
sTruncate    == <<"TRUNCATE", " ", "TABLE", " ", "t">>
sUpdate      == <<"UPDATE", " ", "t", " ", "SET", " ", "x", "=", "1">>
sInsert      == <<"INSERT", " ", "INTO", " ", "t", " ", "VALUES", " ", "(", "1", ")">>
sCreate      == <<"CREATE", " ", "TABLE", " ", "t", " ", "(", "x", " ", "INT", ")">>
sAlter       == <<"ALTER", " ", "TABLE", " ", "t", " ", "ADD", " ", "COLUMN", " ", "x", " ", "INT">>
sShow        == <<"SHOW", " ", "TABLES">>

\* texts of one statement
StatementTexts ==
  {qSelect, sSelectLower, sSelectLimit, sSelectLimitLower, sSelectOne, qDelete,
   sDeleteLower, sDrop, sDropLower, sTruncate, sUpdate, sInsert, sCreate, sAlter,
   sShow, qGarbage}

\* the texts the validator is called on: one statement, bare, terminated or
\* padded; two statements, stacked with and without whitespace; three
\* statements with a DELETE in the middle
SqlTexts ==
  StatementTexts
  \cup {a \o <<";">> : a \in StatementTexts}
  \cup {<<" ">> \o a \o <<" ">> : a \in StatementTexts}
  \cup {a \o <<";", " ">> \o b : a, b \in StatementTexts}
  \cup {a \o <<";">> \o b \o <<" ", ";", " ">> : a, b \in StatementTexts}
  \cup {qSelect \o <<";", " ">> \o qDelete \o <<";", " ">> \o b : b \in StatementTexts}

\* the limit arguments addLimit is called with (<< >>: none)
LimitArgs == {<< >>, <<"5">>}

\* a node whose from list the classifier cannot read
Unreadable(type) == [Node(type, << >>, NoTable) EXCEPT !.readable = FALSE]

\* an entry of the statement array that carries no type
NoStatement == Node("", << >>, NoTable)

ParserNodes ==
  {Node("select", <<"t">>, NoTable), Node("delete", <<"t">>, NoTable),
   Node("show", << >>, NoTable), NoStatement,
   Unreadable("select"), Unreadable("delete")}

\* what parser.astify may answer: a throw, one statement, or two
ParserAnswers ==
  {[ok |-> FALSE, stmts |-> << >>]}
  \cup {[ok |-> TRUE, stmts |-> <<n>>] : n \in ParserNodes}
  \cup {[ok |-> TRUE, stmts |-> <<n, m>>] : n, m \in ParserNodes}

\* the record of a call of the validator, kept in lastOp: the input (a text,
\* or a parser answer when input = "ast") and what the call gave
ValidatorCall(op, input, sql, ast) ==
  [op |-> op, input |-> input, sql |-> sql, ast |-> ast, mode |-> TRUE,
   limit |-> << >>, analysis |-> NoAnalysis, safe |-> FALSE, reason |-> << >>,
   out |-> << >>, matches |-> FALSE]

\* a fresh validator and registry; the input of the calls is drawn here
ValidatorInit ==
  /\ metadata = NoMetadata
  /\ regMetadata = NoMetadata
  /\ messages = InitialHistory(NoMetadata)
  /\ readOnlyMode = TRUE
  /\ pc = [p \in Calls |-> "idle"]
  /\ iterations = [p \in Calls |-> 0]
  /\ response = [p \in Calls |-> ReplyText]
  /\ toolIdx = [p \in Calls |-> 0]
  /\ pending = [p \in Calls |-> NoPending]
  /\ outcome = [p \in Calls |-> NoOutcome]
  /\ llmCalls = [p \in Calls |-> 0]
  /\ toolRounds = [p \in Calls |-> 0]
  /\ dispatched = [p \in Calls |-> 0]
  /\ modeArg = "never"
  /\ lastOp \in {ValidatorCall("input", "text", sql, astify(sql)) : sql \in SqlTexts}
           \cup {ValidatorCall("input", "ast", << >>, ast) : ast \in ParserAnswers}
  /\ ServerStart

CallValidateSafe(mode) ==
  /\ lastOp.input = "text"
  /\ lastOp' = [ValidatorCall("validateSafe", "text", lastOp.sql, lastOp.ast) EXCEPT
                  !.mode = mode,
                  !.safe = validateSafe(lastOp.sql, mode).safe,
                  !.reason = validateSafe(lastOp.sql, mode).reason]
  /\ UNCHANGED <<serverVars, messages, metadata, registryVars, callVars>>

CallAnalyze ==
  /\ lastOp.input = "text"
  /\ lastOp' = [ValidatorCall("analyze", "text", lastOp.sql, lastOp.ast) EXCEPT
                  !.analysis = analyze(lastOp.sql)]
  /\ UNCHANGED <<serverVars, messages, metadata, registryVars, callVars>>

\* analyze on a text for which the parser answers lastOp.ast
CallAnalyzeParsed ==
  /\ lastOp.input = "ast"
  /\ lastOp' = [ValidatorCall("analyze", "ast", << >>, lastOp.ast) EXCEPT
                  !.analysis = analyzeAst(lastOp.ast)]
  /\ UNCHANGED <<serverVars, messages, metadata, registryVars, callVars>>

CallValidateSafeParsed(mode, flagged) ==
  /\ lastOp.input = "ast"
  /\ lastOp' = [ValidatorCall("validateSafe", "ast", << >>, lastOp.ast) EXCEPT
                  !.mode = mode, !.matches = flagged,
                  !.analysis = analyzeAst(lastOp.ast),
                  !.safe = validateSafeParsed(lastOp.ast, flagged, mode).safe,
                  !.reason = validateSafeParsed(lastOp.ast, flagged, mode).reason]
  /\ UNCHANGED <<serverVars, messages, metadata, registryVars, callVars>>

CallAddLimit(limit) ==
  /\ lastOp.input = "text"
  /\ lastOp' = [ValidatorCall("addLimit", "text", lastOp.sql, lastOp.ast) EXCEPT
                  !.limit = limit, !.out = addLimit(lastOp.sql, limit)]
  /\ UNCHANGED <<serverVars, messages, metadata, registryVars, callVars>>

ValidatorNext ==
  \/ \E mode \in BOOLEAN : CallValidateSafe(mode)
  \/ CallAnalyze
  \/ CallAnalyzeParsed
  \/ \E mode, flagged \in BOOLEAN : CallValidateSafeParsed(mode, flagged)
  \/ \E limit \in LimitArgs : CallAddLimit(limit)

ValidatorSpec == ValidatorInit /\ [][ValidatorNext]_vars


(***************************************************************************)
(* chat() on replies without tool calls: the LLM Client answers with every *)
(* content of FinalContents, and chat() returns what parseResponse makes   *)
(* of it.                                                                  *)
(***************************************************************************)

\* the JSON text of a string, and of a member
Lit(body) == <<Quote, body, Quote>>
Pair(key, value) == Lit(key) \o <<":">> \o value

cPlain       == <<"plain text">>
cTable       == <<"{">> \o Pair("response_type", Lit("table")) \o <<",">>
                  \o Pair("description", Lit("x")) \o <<"}">>
cChartSql    == <<"{">> \o Pair("description", Lit("x")) \o <<",">>
                  \o Pair("response_type", Lit("chart")) \o <<",">>
                  \o Pair("sql", Lit("q")) \o <<"}">>
cNoDescription == <<"{">> \o Pair("response_type", Lit("table")) \o <<"}">>
cNoType      == <<"{">> \o Pair("description", Lit("x")) \o <<"}">>
cEmptyObject == <<"{", "}">>
cNull        == <<"null">>
cNumber      == <<"5">>
cString      == Lit("x")
cTruncated   == <<"{">> \o Pair("response_type", Lit("table")) \o <<",">>
cEmptyDescription == <<"{">> \o Pair("response_type", Lit("table")) \o <<",">>
                       \o Pair("description", <<Quote, Quote>>) \o <<"}">>
cPie         == <<"{">> \o Pair("response_type", Lit("pie")) \o <<",">>
                  \o Pair("description", Lit("x")) \o <<"}">>
cNumberDescription == <<"{">> \o Pair("response_type", Lit("chart")) \o <<",">>
                        \o Pair("description", <<"5">>) \o <<"}">>

\* the contents of a final assistant reply
FinalContents ==
  {cPlain, cTable, cChartSql, cNoDescription, cNoType, cEmptyObject, cNull,
   cNumber, cString, cTruncated, cEmptyDescription, cPie, cNumberDescription}

\* replies without tool calls: tool_calls absent, or an empty list
FinalReplies ==
  {AssistantMessage(c, FALSE, << >>) : c \in FinalContents}
  \cup {AssistantMessage(c, TRUE, << >>) : c \in FinalContents}

ReplyNext ==
  \/ \E p \in Calls, u \in UserMessages : ChatStart(p, u)
  \/ \E p \in Calls, reply \in FinalReplies : LLMReply(p, reply)

ReplySpec == Init /\ [][ReplyNext]_vars

(***************************************************************************)
(* The semantic layer on its own: generateCompactSchema and                *)
(* generateTablesList are called on every metadata of SchemaMetadata.      *)
(***************************************************************************)

\* a column for every combination of isPrimaryKey, isForeignKey, nullable
SchemaColumns ==
  {[name |-> "id", type |-> "INTEGER", isPrimaryKey |-> pk, isForeignKey |-> fk,
    nullable |-> n] : pk, fk, n \in BOOLEAN}

\* a second column, distinct from every first one
SchemaSecondColumns ==
  {[name |-> "email", type |-> "TEXT", isPrimaryKey |-> FALSE, isForeignKey |-> fk,
    nullable |-> n] : fk, n \in BOOLEAN}

\* tables of one or two columns, with and without a schema
SchemaTables ==
  {[schema |-> s, name |-> "orders", columns |-> <<c>>] :
     s \in {"", "sales"}, c \in SchemaColumns}
  \cup {[schema |-> s, name |-> "customers", columns |-> <<c, d>>] :
          s \in {"", "sales"}, c \in SchemaColumns, d \in SchemaSecondColumns}

\* metadata of no table, one table and two tables
SchemaMetadata ==
  {[present |-> TRUE, tables |-> << >>]}
  \cup {[present |-> TRUE, tables |-> <<t>>] : t \in SchemaTables}
  \cup {[present |-> TRUE, tables |-> <<t, u>>] : t, u \in SchemaTables}

\* the record of a call of the semantic layer, kept in lastOp
SchemaCall(op, md) == [op |-> op, md |-> md, out |-> << >>, list |-> << >>]

\* a fresh semantic layer; the metadata of the calls is drawn here
SchemaInit ==
  /\ metadata = NoMetadata
  /\ regMetadata = NoMetadata
  /\ messages = InitialHistory(NoMetadata)
  /\ readOnlyMode = TRUE
  /\ pc = [p \in Calls |-> "idle"]
  /\ iterations = [p \in Calls |-> 0]
  /\ response = [p \in Calls |-> ReplyText]
  /\ toolIdx = [p \in Calls |-> 0]
  /\ pending = [p \in Calls |-> NoPending]
  /\ outcome = [p \in Calls |-> NoOutcome]
  /\ llmCalls = [p \in Calls |-> 0]
  /\ toolRounds = [p \in Calls |-> 0]
  /\ dispatched = [p \in Calls |-> 0]
  /\ modeArg = "never"
  /\ lastOp \in {SchemaCall("input", md) : md \in SchemaMetadata}
  /\ ServerStart

CallGenerateCompactSchema ==
  /\ lastOp' = [SchemaCall("generateCompactSchema", lastOp.md) EXCEPT
                  !.out = generateCompactSchema(lastOp.md)]
  /\ UNCHANGED <<serverVars, messages, metadata, registryVars, callVars>>

CallGenerateTablesList ==
  /\ lastOp' = [SchemaCall("generateTablesList", lastOp.md) EXCEPT
                  !.list = generateTablesList(lastOp.md)]
  /\ UNCHANGED <<serverVars, messages, metadata, registryVars, callVars>>

SchemaNext ==
  \/ CallGenerateCompactSchema
  \/ CallGenerateTablesList

SchemaSpec == SchemaInit /\ [][SchemaNext]_vars

(***************************************************************************)
(* The host process (src/src/server.ts): the sessions Map and the connect, *)
(* disconnect, scan and chat requests.  A request that awaits is two       *)
(* steps: up to the await, and from the await on.  A chat request is the   *)
(* whole chat() call of Spec, reduced to the user message it pushes, the   *)
(* provider its run_sql calls reach and the final reply it pushes.         *)
(***************************************************************************)

\* the providers connect may create
MaxProviders == 2
\* the session objects getSession may create: as many as session ids
MaxSessionObjects == Cardinality(SessionIds)
\* the scans that may complete
MaxScans == 2
\* the chat requests one orchestrator may serve
MaxSessionChats == 1
\* the requests that may be suspended at once: as many as session ids
MaxInflight == Cardinality(SessionIds)

\* the object getSession stores for a new session id
EmptySession ==
  [provider |-> None, metadata |-> NoMetadata, toolRegistry |-> None,
   orchestrator |-> None]

\* getSession(sessionId): the Map and the session objects afterwards, and the
\* session object returned
getSession(sessionId) ==
  IF sessions[sessionId] # None
    THEN [map |-> sessions, objects |-> heap.session, id |-> sessions[sessionId]]
    ELSE [map |-> [sessions EXCEPT ![sessionId] = Len(heap.session) + 1],
          objects |-> Append(heap.session, EmptySession),
          id |-> Len(heap.session) + 1]

\* getSession can still create its object
CanGetSession(sessionId) ==
  sessions[sessionId] # None \/ Len(heap.session) < MaxSessionObjects

\* the record of the last request step, kept in lastOp:
\*   header   : the x-session-id header of the request
\*   failed   : the request answered with status 500
\*   ranQuery : the chat's run_sql reached provider.runQuery on `provider`,
\*              `current` being the provider the last successful connect of
\*              that session id stored
ServerOp(op, header) ==
  [op |-> op, header |-> header, failed |-> FALSE, ranQuery |-> FALSE,
   provider |-> None, current |-> None]

\* a suspended request: the objects it holds on to across its await
Request(kind, header, session, orchestrator) ==
  [kind |-> kind, header |-> header, session |-> session, orchestrator |-> orchestrator]

\* POST /api/connect: connected says whether provider.connect and
\* testConnection succeeded; a provider that failed is referenced by nothing
Connect(header, connected) ==
  LET g == getSession(SessionKey(header))
      provider == Len(heap.provider) + 1
  IN
  /\ Len(heap.provider) < MaxProviders
  /\ connected => CanGetSession(SessionKey(header))
  /\ IF connected
       THEN /\ sessions' = g.map
            /\ heap' = [heap EXCEPT
                 !.provider = Append(@, [connected |-> TRUE]),
                 !.session = [g.objects EXCEPT ![g.id].provider = provider]]
            /\ stored' = [stored EXCEPT ![SessionKey(header)] = provider]
       ELSE UNCHANGED <<sessions, heap, stored>>
  /\ lastOp' = [ServerOp("connect", header) EXCEPT !.failed = ~connected]
  /\ UNCHANGED <<messages, metadata, registryVars, callVars, inflight>>

\* POST /api/disconnect
Disconnect(header) ==
  LET g == getSession(SessionKey(header))
      provider == g.objects[g.id].provider
  IN
  /\ CanGetSession(SessionKey(header))
  /\ sessions' = [g.map EXCEPT ![SessionKey(header)] = None]
  /\ heap' = [heap EXCEPT
       !.session = g.objects,
       !.provider = IF provider # None THEN [@ EXCEPT ![provider].connected = FALSE]
                                       ELSE @]
  /\ lastOp' = ServerOp("disconnect", header)
  /\ UNCHANGED <<messages, metadata, registryVars, callVars, inflight, stored>>

\* the scans that completed or may still complete
ScansStarted ==
  Len(heap.registry) + Cardinality({r \in inflight : r.kind = "scan"})

\* POST /api/scan up to `await scanner.scanDatabase(...)`
ScanBegin(header) ==
  LET g == getSession(SessionKey(header)) IN
  /\ CanGetSession(SessionKey(header))
  /\ sessions' = g.map
  /\ heap' = [heap EXCEPT !.session = g.objects]
  /\ IF g.objects[g.id].provider = None
       THEN /\ lastOp' = [ServerOp("scan", header) EXCEPT !.failed = TRUE]
            /\ UNCHANGED inflight
       ELSE /\ Cardinality(inflight) < MaxInflight
            /\ ScansStarted < MaxScans
            /\ Request("scan", header, g.id, None) \notin inflight
            /\ inflight' = inflight \cup {Request("scan", header, g.id, None)}
            /\ lastOp' = ServerOp("scan", header)
  /\ UNCHANGED <<messages, metadata, registryVars, callVars, stored>>

\* POST /api/scan from the await on: scanned says whether scanDatabase
\* resolved, with md
ScanEnd(r, scanned, md) ==
  LET registry == Len(heap.registry) + 1
      orchestrator == Len(heap.orchestrator) + 1
  IN
  /\ r \in inflight /\ r.kind = "scan"
  /\ inflight' = inflight \ {r}
  /\ IF scanned
       THEN heap' = [heap EXCEPT
              !.registry = Append(@, [provider |-> heap.session[r.session].provider,
                                       metadata |-> md, readOnlyMode |-> TRUE]),
              !.orchestrator = Append(@, [toolRegistry |-> registry, metadata |-> md,
                                           messages |-> InitialHistory(md)]),
              !.session = [@ EXCEPT ![r.session].metadata = md,
                                    ![r.session].toolRegistry = registry,
                                    ![r.session].orchestrator = orchestrator]]
       ELSE heap' = heap
  /\ lastOp' = [ServerOp("scanned", r.header) EXCEPT !.failed = ~scanned]
  /\ UNCHANGED <<messages, metadata, registryVars, callVars, sessions, stored>>

\* POST /api/chat up to chat()'s first await: the user message is pushed
ChatBegin(header, userMessage) ==
  LET g == getSession(SessionKey(header))
      orchestrator == g.objects[g.id].orchestrator
  IN
  /\ CanGetSession(SessionKey(header))
  /\ sessions' = g.map
  /\ IF orchestrator = None
       THEN /\ heap' = [heap EXCEPT !.session = g.objects]
            /\ lastOp' = [ServerOp("chat", header) EXCEPT !.failed = TRUE]
            /\ UNCHANGED inflight
       ELSE /\ Cardinality(inflight) < MaxInflight
            /\ Len(heap.orchestrator[orchestrator].messages) < 1 + 2 * MaxSessionChats
            /\ Request("chat", header, g.id, orchestrator) \notin inflight
            /\ heap' = [heap EXCEPT
                 !.session = g.objects,
                 !.orchestrator[orchestrator].messages =
                    Append(@, Message("user", userMessage))]
            /\ inflight' = inflight \cup {Request("chat", header, g.id, orchestrator)}
            /\ lastOp' = ServerOp("chat", header)
  /\ UNCHANGED <<messages, metadata, registryVars, callVars, stored>>

\* POST /api/chat from there to the final reply; ranQuery says whether the
\* model had run_sql called, which reaches the provider of the orchestrator's
\* tool registry
ChatEnd(r, ranQuery) ==
  LET registry == heap.orchestrator[r.orchestrator].toolRegistry IN
  /\ r \in inflight /\ r.kind = "chat"
  /\ inflight' = inflight \ {r}
  /\ heap' = [heap EXCEPT !.orchestrator[r.orchestrator].messages = Append(@, ReplyText)]
  /\ lastOp' = [ServerOp("chatted", r.header) EXCEPT
                  !.ranQuery = ranQuery,
                  !.provider = IF ranQuery THEN heap.registry[registry].provider ELSE None,
                  !.current = stored[SessionKey(r.header)]]
  /\ UNCHANGED <<messages, metadata, registryVars, callVars, sessions, stored>>

ServerNext ==
  \/ \E header \in SessionHeaders, connected \in BOOLEAN : Connect(header, connected)
  \/ \E header \in SessionHeaders : Disconnect(header)
  \/ \E header \in SessionHeaders : ScanBegin(header)
  \/ \E r \in inflight, scanned \in BOOLEAN, md \in ScannedMetadata : ScanEnd(r, scanned, md)
  \/ \E header \in SessionHeaders, u \in UserMessages : ChatBegin(header, u)
  \/ \E r \in inflight, ranQuery \in BOOLEAN : ChatEnd(r, ranQuery)

\* the host process at start-up; the objects of Spec are not in use
ServerInit ==
  /\ metadata = NoMetadata
  /\ regMetadata = NoMetadata
  /\ messages = InitialHistory(NoMetadata)
  /\ readOnlyMode = TRUE
  /\ pc = [p \in Calls |-> "idle"]
  /\ iterations = [p \in Calls |-> 0]
  /\ response = [p \in Calls |-> ReplyText]
  /\ toolIdx = [p \in Calls |-> 0]
  /\ pending = [p \in Calls |-> NoPending]
  /\ outcome = [p \in Calls |-> NoOutcome]
  /\ llmCalls = [p \in Calls |-> 0]
  /\ toolRounds = [p \in Calls |-> 0]
  /\ dispatched = [p \in Calls |-> 0]
  /\ modeArg = "never"
  /\ lastOp = ServerOp("start", "")
  /\ ServerStart

ServerSpec == ServerInit /\ [][ServerNext]_vars




(***************************************************************************)
(* Claims                                                                  *)
(***************************************************************************)

\* C1: every SQL text handed to provider.runQuery, by run_sql or by
\* POST /api/query, is a text validateSafe accepts under the read-only mode
\* current at the call, the text produced by the LIMIT rewrite included.
C1_EveryQueryValidated ==
  lastOp.ranQuery => validateSafe(lastOp.query, lastOp.mode).safe

\* C2: run_sql validates under the mode last passed to setReadOnlyMode (true
\* if it was never called), and when validateSafe answers unsafe the call
\* fails without provider.runQuery being invoked.
C2_RunSqlGate ==
  lastOp.runSql =>
    LET mode == (lastOp.lastSet # "false") IN
    /\ lastOp.mode = mode
    /\ validateSafe(lastOp.sql, mode).safe => (lastOp.ranQuery /\ ~lastOp.failed)
    /\ ~validateSafe(lastOp.sql, mode).safe =>
         /\ lastOp.failed
         /\ ~lastOp.ranQuery
         /\ lastOp.message =
              <<"Tool execution failed: ", "SQL validation failed: ">>
                \o validateSafe(lastOp.sql, mode).reason

\* a DELETE rejected under the default mode, and a stacked DROP rejected
\* after setReadOnlyMode(false)
C2_Witness ==
  /\ lastOp.runSql /\ lastOp.failed /\ ~lastOp.ranQuery
  /\ lastOp.lastSet = "false"
  /\ lastOp.sql = qStacked

\* C3: a chat() call whose every LLM Client call returned a message with
\* tool calls ends in the max-iterations failure after exactly 5 LLM Client
\* calls; no call ever makes a 6th.
C3_ExactlyFiveRounds ==
  \A p \in Calls :
    /\ llmCalls[p] <= 5
    /\ outcome[p].kind = "max_iterations" => (llmCalls[p] = 5 /\ toolRounds[p] = 5)
    /\ (pc[p] \in {"done", "failed"} /\ toolRounds[p] = llmCalls[p]) =>
         /\ pc[p] = "failed"
         /\ outcome[p] = [kind |-> "max_iterations", error |-> MaxIterationsError, value |-> Undefined]
         /\ llmCalls[p] = 5
    /\ (toolRounds[p] = llmCalls[p] /\ llmCalls[p] < 5) =>
         pc[p] \in {"idle", "dispatch", "tool"}

C3_Witness ==
  \E p \in Calls : pc[p] = "failed" /\ outcome[p].kind = "max_iterations"
                   /\ llmCalls[p] = 5

\* the tool call a dispatch record is about
OpToolCall(op) == response[op.p].tool_calls[op.idx]

\* the last operation pushed the catch branch's message
DispatchFailed == lastOp.op \in {"dispatch", "providerReturn", "providerFail"}
                  /\ lastOp.failed

\* C4: a tool call whose dispatch fails (arguments that do not decode, an
\* unknown tool, a failing handler) leaves a tool message {error: message}
\* with the call's id and name at the end of the history, and chat() goes on:
\* to the next tool call, to the next LLM round, or to the iteration-cap
\* failure; the tool failure itself never ends the call.
C4_ToolFailureIsAMessage ==
  DispatchFailed =>
    LET p == lastOp.p
        tc == OpToolCall(lastOp)
        last == messages[Len(messages)]
    IN
    /\ last.role = "tool"
    /\ last.content = <<"{error:">> \o lastOp.message \o <<"}">>
    /\ last.tool_call_id = tc.id
    /\ last.name = tc.function.name
    /\ ~tc.function.arguments.wellFormed => lastOp.message = <<"Unexpected token in JSON">>
    /\ (tc.function.arguments.wellFormed /\ tc.function.name \notin ToolNames) =>
         lastOp.message = <<"Tool not found: ", tc.function.name>>
    /\ (lastOp.op = "dispatch" /\ tc.function.arguments.wellFormed
          /\ tc.function.name \in ToolNames) =>
         lastOp.message[1] = "Tool execution failed: "
    /\ IF lastOp.idx < Len(response[p].tool_calls)
         THEN pc[p] = "dispatch" /\ toolIdx[p] = lastOp.idx + 1
                /\ outcome[p].kind = "none"
         ELSE IF toolRounds[p] < 5
           THEN pc[p] = "llm" /\ outcome[p].kind = "none"
                  /\ llmCalls[p] = toolRounds[p] + 1
           ELSE pc[p] = "failed" /\ outcome[p].kind = "max_iterations"

\* the last tool call of the fifth round fails: the cap decides, not the tool
C4_Witness ==
  /\ DispatchFailed
  /\ lastOp.idx = Len(response[lastOp.p].tool_calls)
  /\ outcome[lastOp.p].kind = "max_iterations"

\* C5: a chat() call fails only because an LLM Client call failed or because
\* the 5-round cap was exceeded; no outcome of a tool dispatch ends it.
C5_OnlyTwoFailures ==
  /\ \A p \in Calls :
       /\ outcome[p].kind \in {"none", "returned", "llm_error", "max_iterations"}
       /\ pc[p] = "failed" <=> outcome[p].kind \in {"llm_error", "max_iterations"}
       /\ outcome[p].kind = "max_iterations" => toolRounds[p] = 5
  /\ lastOp.op \in {"dispatch", "providerReturn", "providerFail"} =>
       /\ outcome[lastOp.p].kind \in {"none", "max_iterations"}
       /\ pc[lastOp.p] = "failed" =>
            /\ outcome[lastOp.p].kind = "max_iterations"
            /\ lastOp.idx = Len(response[lastOp.p].tool_calls)

\* every kind of dispatch outcome has happened to a call that is still going
C5_Witness ==
  /\ lastOp.op = "providerReturn" /\ lastOp.failed
  /\ pc[lastOp.p] = "llm"
  /\ llmCalls[lastOp.p] = 3

\* C6: when an LLM Client call fails, chat() fails with that error and the
\* call makes no further LLM Client call and dispatches no further tool.
C6_LLMFailureIsFatal ==
  /\ [](\A p \in Calls :
          outcome[p].kind = "llm_error" =>
            pc[p] = "failed" /\ outcome[p].error = LLMError)
  /\ [][\A p \in Calls :
          /\ (pc[p] = "llm" /\ lastOp'.op = "llmFail" /\ lastOp'.p = p) =>
               outcome'[p] = [kind |-> "llm_error", error |-> LLMError, value |-> Undefined]
          /\ outcome[p].kind = "llm_error" =>
               /\ outcome'[p] = outcome[p]
               /\ pc'[p] = pc[p]
               /\ llmCalls'[p] = llmCalls[p]
               /\ dispatched'[p] = dispatched[p]]_vars

\* the LLM Client fails in a later round, after tools were dispatched
C6_Witness ==
  \E p \in Calls : outcome[p].kind = "llm_error" /\ llmCalls[p] = 3
                   /\ dispatched[p] = 8

IsReset(op) == op.op \in {"clearHistory", "setMetadata"}

\* C7: the history is never empty, starts with a system message, holds
\* exactly one system message, and between two resets only grows at its end.
C7_HistoryShape ==
  /\ [](/\ Len(messages) >= 1
        /\ messages[1].role = "system"
        /\ \A i \in 2..Len(messages) : messages[i].role # "system")
  /\ [][~IsReset(lastOp') =>
          /\ Len(messages') >= Len(messages)
          /\ SubSeq(messages', 1, Len(messages)) = messages]_vars

\* a reset ran while a chat() call was suspended, and the call appended after it
C7_Witness ==
  /\ Len(messages) >= 3
  /\ messages[2].role = "tool"
  /\ messages[3].role = "assistant"

\* C8: every tool message follows, with only tool messages in between, an
\* assistant message that emitted a tool call with its id; also when
\* clearHistory, setMetadata or a second chat() runs while a chat() call is
\* suspended.
C8_ToolMessagesAnswerAssistant ==
  \A i \in 1..Len(messages) :
    messages[i].role = "tool" =>
      \E j \in 1..(i - 1) :
        /\ messages[j].role = "assistant"
        /\ \A k \in (j + 1)..(i - 1) : messages[k].role = "tool"
        /\ \E c \in 1..Len(messages[j].tool_calls) :
             messages[j].tool_calls[c].id = messages[i].tool_call_id

\* the tokens of text strictly between the markers a and b
Between(text, a, b) ==
  LET i == CHOOSE n \in 1..Len(text) : text[n] = a
      j == CHOOSE n \in 1..Len(text) : text[n] = b
  IN SubSeq(text, i + 1, j - 1)

\* C9: after clearHistory() or setMetadata(m) the history is one system
\* message whose text embeds the compact schema of the current metadata (or
\* the placeholder when there is none) and the tool list.
C9_ResetLeavesOneSystemMessage ==
  IsReset(lastOp) =>
    /\ Len(messages) = 1
    /\ messages[1].role = "system"
    /\ Between(messages[1].content, "DATABASE SCHEMA:", "CAPABILITIES:")
         = IF metadata.present THEN generateCompactSchema(metadata)
                               ELSE <<"No schema loaded yet.">>
    /\ Between(messages[1].content, "CAPABILITIES:", "GUIDELINES:")
         = Join([i \in 1..Len(Tools) |->
                   <<"- ", Tools[i].name, ": ", Tools[i].description>>], <<"\n">>)
    /\ lastOp.op = "setMetadata" => metadata \in ScannedMetadata

\* setMetadata ran while a chat() call that had appended messages was suspended
C9_Witness ==
  /\ lastOp.op = "setMetadata"
  /\ metadata = MetaCustomers
  /\ \E p \in Calls : pc[p] = "tool" /\ dispatched[p] = 4

\* C10: the tool messages of a reply with tool calls c1..cn stand directly
\* after that reply in the history, in the order c1..cn, each with its call's
\* id and name.
C10_ToolMessagesFollowReply ==
  (lastOp.op \in {"dispatch", "providerReturn", "providerFail"}
     /\ ~(pc[lastOp.p] = "tool" /\ lastOp.op = "dispatch")) =>
    LET p == lastOp.p
        n == lastOp.idx
        at == Len(messages) - n
    IN
    /\ at >= 1
    /\ messages[at] = response[p]
    /\ \A k \in 1..n :
         /\ messages[at + k].role = "tool"
         /\ messages[at + k].tool_call_id = response[p].tool_calls[k].id
         /\ messages[at + k].name = response[p].tool_calls[k].function.name


\* the chat() calls suspended at an LLM Client call, and at a tool handler
OutstandingLLM == {p \in Calls : pc[p] = "llm"}
RunningHandlers == {p \in Calls : pc[p] \in {"dispatch", "tool"}}

\* C11: on one orchestrator at most one LLM Client call is outstanding at any
\* time, and no tool handler runs together with another tool handler or with
\* an LLM Client call, whatever chat requests the host delivers.
C11_StrictlySequential ==
  /\ Cardinality(OutstandingLLM) <= 1
  /\ Cardinality(RunningHandlers) <= 1
  /\ RunningHandlers # {} => OutstandingLLM = {}


\* "DELETE FROM <identifier>" that ends the text, an optional ";" and
\* whitespace after it
EndsWithDelete(rest) ==
  LET t1 == TrimRight(rest)
      t2 == IF t1 # << >> /\ t1[Len(t1)] = ";"
              THEN TrimRight(SubSeq(t1, 1, Len(t1) - 1)) ELSE t1
  IN /\ Len(t2) = 5
     /\ Upper(t2[1]) = "DELETE" /\ IsWs(t2[2])
     /\ Upper(t2[3]) = "FROM" /\ IsWs(t2[4]) /\ IsWord(t2[5])

\* the stacked-statement pattern as the claim words it: a ";" followed by
\* optional whitespace and DROP, TRUNCATE, or a DELETE FROM that ends the text
StackedPattern(sql) ==
  \E i \in 1..Len(sql) :
    /\ sql[i] = ";"
    /\ LET rest == TrimLeft(SubSeq(sql, i + 1, Len(sql))) IN
       /\ rest # << >>
       /\ \/ Upper(rest[1]) \in {"DROP", "TRUNCATE"}
          \/ EndsWithDelete(rest)

\* C12: validateSafe answers unsafe exactly when analyze reports the text
\* invalid, or the mode is read-only and analyze reports a write, or the raw
\* text matches the stacked-statement pattern; a single DELETE is unsafe in
\* read-only mode only, a SELECT followed by a stacked DROP in both modes.
C12_ValidateSafeCases ==
  lastOp.op = "validateSafe" =>
    LET a == IF lastOp.input = "text" THEN analyze(lastOp.sql)
                                      ELSE analyzeAst(lastOp.ast)
        unsafe == \/ ~a.isValid
                  \/ lastOp.mode /\ ~a.isReadOnly
                  \/ IF lastOp.input = "text" THEN StackedPattern(lastOp.sql)
                                               ELSE lastOp.matches
    IN
    /\ lastOp.safe = ~unsafe
    /\ lastOp.safe \in BOOLEAN
    /\ lastOp.sql \in {qDelete, sDeleteLower} => lastOp.safe = ~lastOp.mode
    /\ lastOp.sql \in {qStacked, sSelectOne \o <<";", " ">> \o sDrop,
                       sSelectLower \o <<";", " ">> \o sDropLower} => ~lastOp.safe

\* in read-write mode a stacked DROP is stopped by the textual pattern alone
C12_Witness ==
  /\ lastOp.op = "validateSafe"
  /\ ~lastOp.mode
  /\ lastOp.sql = sSelectOne \o <<";", " ">> \o sDrop
  /\ ~lastOp.safe
  /\ lastOp.reason = <<"Potentially dangerous operation detected">>


\* a LIMIT keyword, whitespace and a number somewhere in the text
ContainsLimitClause(t) ==
  \E i \in 1..Len(t) :
    /\ i + 2 <= Len(t)
    /\ Upper(t[i]) = "LIMIT" /\ IsWs(t[i + 1]) /\ IsNumber(t[i + 2])

\* C13: addLimit returns sql unchanged if the trimmed text holds a LIMIT
\* <number> clause; otherwise, if the trimmed text starts with SELECT, the
\* trimmed text followed by " LIMIT <limit>" (1000 by default); otherwise sql
\* unchanged.
C13_AddLimitCases ==
  lastOp.op = "addLimit" =>
    LET t == Trim(lastOp.sql)
        lim == IF lastOp.limit = << >> THEN <<"1000">> ELSE lastOp.limit
    IN
    /\ IF ContainsLimitClause(t) THEN lastOp.out = lastOp.sql
       ELSE IF t # << >> /\ Upper(t[1]) = "SELECT"
         THEN lastOp.out = t \o <<" ", "LIMIT", " ">> \o lim
       ELSE lastOp.out = lastOp.sql
    /\ (lastOp.sql = qSelect /\ lastOp.limit = << >>) =>
         lastOp.out = <<"SELECT", " ", "*", " ", "FROM", " ", "t", " ", "LIMIT", " ", "1000">>
    /\ lastOp.sql \in {sSelectLimit, sSelectLimitLower, sUpdate} =>
         lastOp.out = lastOp.sql

\* a padded lower-case select: trimmed, then limited with the given limit
C13_Witness ==
  /\ lastOp.op = "addLimit"
  /\ lastOp.sql = <<" ">> \o sSelectLower \o <<" ">>
  /\ lastOp.limit = <<"5">>
  /\ lastOp.out = sSelectLower \o <<" ", "LIMIT", " ", "5">>


\* the parser threw, or a statement it returned cannot be classified
AnalysisFailed(ast) ==
  \/ ~ast.ok
  \/ \E i \in 1..Len(ast.stmts) : ~ast.stmts[i].readable

RECURSIVE LastKind(_)
LastKind(stmts) ==
  IF stmts = << >> THEN "unknown"
  ELSE IF stmts[Len(stmts)].type # "" THEN stmts[Len(stmts)].type
  ELSE LastKind(SubSeq(stmts, 1, Len(stmts) - 1))

\* C15: for a text that parses to one statement, type is the statement's
\* lowercase kind and isReadOnly is false exactly for insert, update, delete,
\* create, drop, alter and truncate; for a text that parses to several
\* statements, analyze warns of multiple statements and type is the kind of
\* the last statement analyzed.
C15_Classification ==
  (lastOp.op = "analyze" /\ lastOp.ast.ok /\ ~AnalysisFailed(lastOp.ast)) =>
    LET a == lastOp.analysis
        stmts == lastOp.ast.stmts
    IN
    /\ a.isValid
    /\ (Len(stmts) = 1 /\ stmts[1].type # "") =>
         /\ a.type = stmts[1].type
         /\ ~a.isReadOnly <=> a.type \in {"insert", "update", "delete", "create",
                                          "drop", "alter", "truncate"}
         /\ a.warnings = << >>
    /\ Len(stmts) > 1 =>
         /\ a.warnings = <<"Multiple statements detected">>
         /\ a.type = LastKind(stmts)
    /\ lastOp.sql = sSelectLower => a.type = "select"
    /\ lastOp.sql = sInsert => a.type = "insert"
    /\ lastOp.sql = sUpdate => a.type = "update"
    /\ lastOp.sql = sDeleteLower => a.type = "delete"
    /\ lastOp.sql = sCreate => a.type = "create"
    /\ lastOp.sql = sDropLower => a.type = "drop"
    /\ lastOp.sql = sAlter => a.type = "alter"
    /\ lastOp.sql = sTruncate => a.type = "truncate"
    /\ lastOp.sql = sShow => a.type = "show"

\* a batch whose last statement is a SELECT: the type is "select", and the
\* TRUNCATE before it is still seen
C15_Witness ==
  /\ lastOp.op = "analyze"
  /\ lastOp.sql = sTruncate \o <<";", " ">> \o sSelectOne
  /\ lastOp.analysis.type = "select"
  /\ ~lastOp.analysis.isReadOnly
  /\ lastOp.analysis.warnings # << >>


\* the keys of a JavaScript value as a set
KeySet(v) == {v.keys[i] : i \in 1..Len(v.keys)}

\* content decodes as JSON to an object that has both members
CarriesBoth(content) ==
  LET json == JSONDecode(content) IN
  /\ json.ok
  /\ json.value.t = "object"
  /\ {<<"response_type">>, <<"description">>} \subseteq KeySet(json.value)

\* C16: when the reply carries no tool calls (absent or empty list) chat()
\* ends with the parsed reply: the decoded JSON as it is when the content
\* decodes and carries both a response_type and a description, and for every
\* other content {response_type: "text", description: content,
\* raw_response: content}.
C16_ParsedReply ==
  \A p \in Calls :
    /\ (lastOp.op = "llmReply" /\ lastOp.p = p /\ ~HasToolCalls(response[p])) =>
         pc[p] = "done"
    /\ pc[p] = "done" =>
         /\ outcome[p].kind = "returned"
         /\ outcome[p].value =
              IF CarriesBoth(response[p].content)
                THEN JSONDecode(response[p].content).value
                ELSE TextResponse(response[p].content)

\* C17: every ChatResponse chat() returns has a response_type that is one of
\* text, table and chart, and a description that is a text.
C17_ChatResponseShape ==
  \A p \in Calls :
    outcome[p].kind = "returned" =>
      /\ Member(outcome[p].value, <<"response_type">>)
           \in {Str(<<"text">>), Str(<<"table">>), Str(<<"chart">>)}
      /\ Member(outcome[p].value, <<"description">>).t = "string"


\* the names registerTools puts in the catalog
CatalogNames == {"list_tables", "describe_table", "generate_sql", "explain_sql", "run_sql"}

\* the dispatch recorded in op reached executeTool (its arguments decoded)
ExecuteToolCalled(op) ==
  op.op = "dispatch" /\ op.message # <<"Unexpected token in JSON">>

\* C18: executeTool fails with "Tool not found" and invokes no handler when
\* the name is not in the catalog; otherwise it invokes that tool's handler
\* with params, gives what the handler gives, and when the handler fails it
\* fails with "Tool execution failed: " followed by the handler's message.
C18_ExecuteTool ==
  [][(lastOp' # lastOp /\ ExecuteToolCalled(lastOp')) =>
       IF lastOp'.tool \notin CatalogNames
         THEN /\ lastOp'.failed
              /\ lastOp'.message = <<"Tool not found: ", lastOp'.tool>>
              /\ lastOp'.handler = ""
              /\ ~lastOp'.ranQuery
         ELSE LET h == Handler(lastOp'.tool, lastOp'.params, readOnlyMode, regMetadata) IN
              /\ lastOp'.handler = lastOp'.tool
              /\ lastOp'.runSql => lastOp'.params.sql = lastOp'.sql
              /\ h.kind = "throw" =>
                   /\ lastOp'.failed
                   /\ lastOp'.message = <<"Tool execution failed: ">> \o h.text
              /\ h.kind # "throw" =>
                   /\ ~lastOp'.failed
                   /\ lastOp'.kind = h.kind
                   /\ lastOp'.text = h.text
                   /\ lastOp'.query = h.sql]_vars

\* run_sql's own failure comes back wrapped
C18_Witness ==
  /\ ExecuteToolCalled(lastOp)
  /\ lastOp.handler = "run_sql"
  /\ lastOp.failed
  /\ lastOp.message = <<"Tool execution failed: ", "SQL validation failed: ",
                        "Write operations not allowed in read-only mode">>

\* C19: getTools returns, for each registered tool, its name, description and
\* parameter schema only; nothing it returns gives access to a handler.
C19_HandlersNotExposed ==
  lastOp.op = "getTools" =>
    /\ {lastOp.tools[i].name : i \in 1..Len(lastOp.tools)} = CatalogNames
    /\ \A i \in 1..Len(lastOp.tools) :
         DOMAIN lastOp.tools[i] = {"name", "description", "parameters"}

\* C20: a run_sql call that passes validation rewrites the text through
\* addLimit(sql, limit), limit being 1000 when none is given, exactly when
\* analyze classifies it as select, and returns limited = true exactly then.
C20_LimitRewrite ==
  (lastOp.runSql /\ ~lastOp.failed) =>
    LET isSelect == analyze(lastOp.sql).type = "select"
        limit == IF lastOp.params.limit = Absent THEN <<"1000">>
                                                 ELSE lastOp.params.limit
    IN
    /\ lastOp.ranQuery
    /\ lastOp.query = IF isSelect THEN addLimit(lastOp.sql, limit) ELSE lastOp.sql
    /\ lastOp.limited = isSelect

\* the number a /\d+/ token denotes
LimitValue(tok) ==
  CASE tok = "0" -> 0 [] tok = "1" -> 1 [] tok = "5" -> 5 [] tok = "1000" -> 1000

\* the row limits a text carries: the numbers of its LIMIT clauses
RowLimits(q) ==
  {LimitValue(q[j]) : j \in {k \in 2..Len(q) :
     /\ IsNumber(q[k])
     /\ \E i \in 1..(k - 2) : Upper(q[i]) = "LIMIT" /\ SkipWs(q, i + 1) = k}}

\* the limit argument is a number, or absent
NumericLimit(limit) == limit = Absent \/ (Len(limit) = 1 /\ IsNumber(limit[1]))

\* the bound the caller asked for: limit, 1000 when none is given
RowBound(limit) == IF limit = Absent THEN 1000 ELSE LimitValue(limit[1])

\* C21: a run_sql(sql, limit) call that passes validation on a statement
\* classified as select hands the Database Provider a text that carries a row
\* limit, and no row limit larger than limit (1000 when limit is not given).
C21_RowLimit ==
  (lastOp.op = "dispatch" /\ lastOp.runSql /\ lastOp.ranQuery /\ lastOp.limited
     /\ NumericLimit(lastOp.params.limit)) =>
    /\ RowLimits(lastOp.query) # {}
    /\ \A n \in RowLimits(lastOp.query) : n <= RowBound(lastOp.params.limit)

\* the names of the tables of metadata that belong to schema, in metadata order
TablesOfSchema(md, schema) ==
  LET InSchema(t) == <<t.schema>> = schema IN
  generateTablesList([md EXCEPT !.tables = SelectSeq(md.tables, InSchema)])

\* the dispatch recorded in op invoked list_tables with a schema argument
ListTablesOfSchema(op) ==
  op.op = "dispatch" /\ op.handler = "list_tables" /\ op.params.schema # Absent

\* C22: list_tables called with a schema argument returns only the tables of
\* that schema: from cached metadata it returns the names of the tables whose
\* schema is the argument, and without cached metadata it asks the Database
\* Provider for the tables of that schema.
C22_SchemaFilter ==
  [][(lastOp' # lastOp /\ ListTablesOfSchema(lastOp')) =>
       IF regMetadata.present
         THEN /\ lastOp'.kind = "return"
              /\ lastOp'.text =
                   <<"{tables:">>
                     \o Join(TablesOfSchema(regMetadata, lastOp'.params.schema), <<",">>)
                     \o <<"}">>
         ELSE /\ lastOp'.kind = "provider"
              /\ lastOp'.args = <<lastOp'.params.schema>>]_vars

\* the table of md whose schema is s and whose name is n exists
HasTable(md, s, n) ==
  \E i \in 1..Len(md.tables) : md.tables[i].schema = s /\ md.tables[i].name = n

\* the dispatch recorded in op invoked describe_table on a name 's.n'
DescribeQualified(op) ==
  /\ op.op = "dispatch" /\ op.handler = "describe_table"
  /\ Len(op.params.table_name) = 3 /\ op.params.table_name[2] = "."

\* C30: findTable(metadata, 's.n') gives the table whose schema is s and whose
\* name is n whenever the metadata holds one, also behind a table named n of
\* another schema; describe_table answered from the cache describes that table.
C30_FindQualified ==
  [][(lastOp' # lastOp /\ DescribeQualified(lastOp')) =>
       LET name == lastOp'.params.table_name IN
       (regMetadata.present /\ HasTable(regMetadata, name[1], name[3])) =>
         /\ findTable(regMetadata, name) # 0
         /\ regMetadata.tables[findTable(regMetadata, name)].schema = name[1]
         /\ regMetadata.tables[findTable(regMetadata, name)].name = name[3]
         /\ lastOp'.kind = "return"
         /\ lastOp'.text = <<"{table:">> \o name \o <<"}">>]_vars

\* a column as the format describes it: name, type, then the tags
ExpectedColumn(c) ==
  <<c.name, " ", c.type>>
    \o (IF c.isPrimaryKey THEN <<" ", "PK">> ELSE << >>)
    \o (IF c.isForeignKey THEN <<" ", "FK">> ELSE << >>)
    \o (IF c.nullable THEN << >> ELSE <<" ", "NOT NULL">>)

\* the columns of a line, in order, ', ' between two of them
RECURSIVE ExpectedColumns(_)
ExpectedColumns(cols) ==
  IF cols = << >> THEN << >>
  ELSE ExpectedColumn(Head(cols))
         \o (IF Len(cols) > 1 THEN <<", ">> ELSE << >>)
         \o ExpectedColumns(Tail(cols))

\* '<qualified-name> (<columns>)'
ExpectedLine(t) ==
  (IF t.schema = "" THEN <<t.name>> ELSE <<t.schema, ".", t.name>>)
    \o <<" (">> \o ExpectedColumns(t.columns) \o <<")">>

\* the lines of the tables, in order, a line break between two of them
RECURSIVE ExpectedLines(_)
ExpectedLines(tables) ==
  IF tables = << >> THEN << >>
  ELSE ExpectedLine(Head(tables))
         \o (IF Len(tables) > 1 THEN <<"\n">> ELSE << >>)
         \o ExpectedLines(Tail(tables))

\* the number of line breaks in a text
LineBreaks(text) == Cardinality({i \in 1..Len(text) : text[i] = "\n"})

\* C25: generateCompactSchema(metadata) yields exactly one line per table,
\* tables in metadata order, each line '<qualified-name> (<columns>)' with the
\* columns in metadata order separated by ', ', each column its name, its type
\* and the tags PK, FK, NOT NULL in that order, a tag present exactly when the
\* column is a primary key, is a foreign key, or is not nullable.
C25_CompactSchema ==
  lastOp.op = "generateCompactSchema" =>
    /\ lastOp.out = ExpectedLines(lastOp.md.tables)
    /\ lastOp.out = generateCompactSchema(lastOp.md)
    /\ lastOp.md.tables # << >> => LineBreaks(lastOp.out) = Len(lastOp.md.tables) - 1

\* two tables, the second with a column that carries all three tags
C25_Witness ==
  /\ lastOp.op = "generateCompactSchema"
  /\ Len(lastOp.md.tables) = 2
  /\ lastOp.md.tables[1].schema = "sales" /\ lastOp.md.tables[2].schema = ""
  /\ Len(lastOp.md.tables[1].columns) = 2
  /\ SubSeq(lastOp.out, Len(lastOp.out) - 6, Len(lastOp.out))
       = <<" ", "PK", " ", "FK", " ", "NOT NULL", ")">>

\* what the requests of session id see of the conversation: the session
\* object, and the history, metadata and read-only mode behind it
SeenBy(id) ==
  IF sessions[id] = None THEN << >>
  ELSE LET session == heap.session[sessions[id]] IN
       << session,
          IF session.orchestrator = None THEN << >>
            ELSE heap.orchestrator[session.orchestrator],
          IF session.toolRegistry = None THEN << >>
            ELSE heap.registry[session.toolRegistry] >>

\* the session ids that hold an orchestrator
Scanned == {id \in SessionIds :
              sessions[id] # None /\ heap.session[sessions[id]].orchestrator # None}

\* C23: two distinct sessions never share conversation state: they hold
\* distinct session objects, orchestrators and tool registries, each
\* orchestrator works on its own session's registry, and a request of one
\* session id changes nothing of what another session id sees (history,
\* metadata, read-only mode).
C23_SessionsIsolated ==
  [][/\ \A a, b \in Scanned' : a # b =>
          LET sa == heap'.session[sessions'[a]]
              sb == heap'.session[sessions'[b]]
          IN /\ sessions'[a] # sessions'[b]
             /\ sa.orchestrator # sb.orchestrator
             /\ sa.toolRegistry # sb.toolRegistry
             /\ heap'.orchestrator[sa.orchestrator].toolRegistry = sa.toolRegistry
             /\ heap'.orchestrator[sb.orchestrator].toolRegistry = sb.toolRegistry
     /\ \A id \in SessionIds :
          (id # (IF lastOp'.header = "" THEN "default" ELSE lastOp'.header)) =>
            SeenBy(id)' = SeenBy(id)]_vars

\* both sessions have been scanned and a chat of one has been answered: the
\* histories differ
C23_Witness ==
  /\ Scanned = SessionIds
  /\ lastOp.op = "chatted"
  /\ Len(SeenBy("default")[2].messages) = 3
  /\ Len(SeenBy("s2")[2].messages) = 1

\* C28: the queries of a chat request run against the provider the last
\* successful connect of that session stored, never against one a later
\* connect has replaced.
C28_CurrentProvider ==
  (lastOp.op = "chatted" /\ lastOp.ranQuery) => lastOp.provider = lastOp.current

\* C26: if every LLM Client call and every tool handler invocation settles,
\* every chat() call that was started eventually returns a ChatResponse or
\* fails, and it never makes more than 5 LLM Client calls, whatever the model
\* replies.
C26_ChatTerminates ==
  \A p \in Calls :
    /\ (pc[p] # "idle") ~>
         (\/ pc[p] = "done" /\ outcome[p].kind = "returned"
          \/ pc[p] = "failed" /\ outcome[p].kind \in {"llm_error", "max_iterations"})
    /\ [](llmCalls[p] <= 5)

\* a call that returned at its fifth LLM Client call, after four tool rounds
C26_Witness ==
  \E p \in Calls : pc[p] = "done" /\ outcome[p].kind = "returned"
                   /\ llmCalls[p] = 5 /\ toolRounds[p] = 4

\* the table of the FROM clause when the text is one well-formed SELECT
\* statement with a FROM clause (NoTable when it is not): SELECT * FROM t,
\* in any letter case, with or without LIMIT n, a closing ";" and whitespace
SelectFromTable(sql) ==
  LET w == StripWs(sql)
      v == IF w # << >> /\ w[Len(w)] = ";" THEN SubSeq(w, 1, Len(w) - 1) ELSE w
  IN IF /\ Len(v) \in {4, 6}
        /\ Upper(v[1]) = "SELECT" /\ v[2] = "*" /\ Upper(v[3]) = "FROM"
        /\ IsIdent(v[4])
        /\ Len(v) = 6 => (Upper(v[5]) = "LIMIT" /\ IsNumber(v[6]))
       THEN v[4] ELSE NoTable

\* the elements of a list
Elements(list) == {list[i] : i \in 1..Len(list)}

WriteBatch(ast) ==
  /\ ast.ok /\ Len(ast.stmts) >= 2
  /\ \E i \in 1..Len(ast.stmts) : ast.stmts[i].type \in writeOperations

ChatSteps == {"chat", "llmReply", "llmFail", "dispatch", "providerReturn", "providerFail"}

\* history a is the beginning of history b
StartsWith(b, a) == Len(a) <= Len(b) /\ SubSeq(b, 1, Len(a)) = a

\* some chat() call has failed
SomeFailed == \E q \in Calls : pc[q] = "failed"

\* C29: a chat() call that fails rolls nothing back. No step of a chat()
\* call removes or changes a message of the history; the step in which the
\* LLM Client call rejects leaves the history as it is, and the step that
\* reaches the iteration cap adds the last tool message and nothing else;
\* the chat() call that follows a failed one appends its user message to
\* that history and passes the whole of it to the LLM Client.
C29_NothingRolledBack ==
  [][ /\ lastOp'.op \in ChatSteps => StartsWith(messages', messages)
      /\ \A p \in Calls :
           (pc[p] # "failed" /\ pc'[p] = "failed") =>
             /\ outcome'[p].kind = "llm_error" => messages' = messages
             /\ outcome'[p].kind = "max_iterations" =>
                  /\ Len(messages') = Len(messages) + 1
                  /\ messages'[Len(messages')].role = "tool"
      /\ (lastOp'.op = "chat" /\ SomeFailed) =>
           /\ \E u \in UserMessages : messages' = Append(messages, Message("user", u))
           /\ lastOp'.sent = messages'
    ]_vars

\* the second chat() call has just begun after the first one failed on its
\* second LLM Client call: the user message of the first, its assistant and
\* tool messages and the new user message are what the LLM Client receives
C29_Witness ==
  /\ lastOp.op = "chat" /\ lastOp.p = 2
  /\ pc[1] = "failed" /\ outcome[1].kind = "llm_error" /\ llmCalls[1] = 2
  /\ lastOp.sent = messages
  /\ Len(messages) >= 5
  /\ messages[2].role = "user" /\ messages[3].role = "assistant"
  /\ messages[4].role = "tool"
  /\ messages[Len(messages)].role = "user"

=============================================================================
